---- MODULE Spec2Model ----
(***************************************************************************)
(* A model of the Draft parallel file-transfer engine (ziparker/draft):    *)
(* the pooled buffer allocator, the bounded wait queue, the hash journal,  *)
(* the journal diff, the Sender's wire framing, the transfer / verify      *)
(* pipelines, the Receiver's reading of the wire, the transfer request an  *)
(* InfoReceiver takes, the thread body of ThreadExecutor and the walk of   *)
(* getFileInfo.  Every component is a sub-model over its own variables; a  *)
(* specification runs one component and leaves the others idle.            *)
(***************************************************************************)
EXTENDS Integers, Sequences, FiniteSets, TLC

VARIABLES
    \* BufferPool (src/src/util/BufferPool.cc)
    list_,          \* FreeList::list_ : index -> next free index
    free_,          \* FreeList::free_ : head of the free list
    bufs,           \* the BufferPool::Buffer objects of the program
    pendingNotify,  \* puts that released the mutex and have not yet notified
    \* WaitQueue (src/include/draft/util/WaitQueue.hh)
    q_,             \* WaitQueue::q_
    done_,          \* WaitQueue::done_
    mtx_,           \* WaitQueue::mtx_ : the thread holding it, or 0
    cond_,          \* WaitQueue::cond_ : the threads asleep on it
    qpc,            \* where each thread is inside a WaitQueue call
    qop,            \* the call each thread is in
    qres,           \* what each thread's last call returned
    \* diffJournals (src/src/util/JournalOperations.cc)
    journalA,       \* the records of the first journal, in file order
    journalB,       \* the records of the second journal
    diffs,          \* JournalFileDiff::diffs as returned
    dpc,            \* "input" before the call to diffJournals, "done" after it
    \* Journal, Cursor, CursorIter (src/src/util/Journal.cc)
    jfile,          \* the journal file: header, CBOR payload, size and hash region
    jinfo,          \* the FileInfo list the journal was created with
    jrecs,          \* the records handed to writeHash, in call order
    jread,          \* what a read-only open of the file has returned so far
    jwrite,         \* the iovec of each thread's writeHash call in progress
    jpc,            \* "none", "writing", "reading" or "done"
    \* Sender (src/src/util/Sender.cc), writeChunk (src/src/util/Util.cc)
    squeue,         \* the descriptors waiting in the Sender's queue
    sdesc,          \* the descriptors the Sender has dequeued, in order
    siov,           \* the iovec array of the writeChunk call in progress
    sock,           \* the bytes the socket has accepted, as runs of header or payload bytes
    hashLog_,       \* Sender::hashLog_: whether set, and the records written to it
    spc,            \* "get" between descriptors, "write" inside writeChunk
    \* Transfer and verify pipelines (TxSession.cc, RxSession.cc, VerifySession.cc)
    info_,          \* the FileInfo list of the session
    fileIter_,      \* index into info_ of the next file to submit
    readExec_,      \* the submitted Readers, the running one first
    readResults_,   \* the futures of the submitted Readers
    pool_,          \* free buffers of the session pool
    queue_,         \* TxSession::queue_
    hashQueue_,     \* VerifySession::hashQueue_
    sendExec_,      \* the Sender thread of each data channel
    stops,          \* the executors on which cancel() was called
    socks,          \* each data connection: frames in flight, closed by the sender
    recvExec_,      \* the Receiver thread of each data channel
    rxPools,        \* free buffers of each Receiver pool
    rxQueue_,       \* RxSession::queue_
    writeExec_,     \* the Writer thread
    files,          \* the receiver files, by file id
    hashExec_,      \* the Hasher threads
    journal_,       \* the records of VerifySession::journal_
    runPc,          \* the sending or verifying session
    rxPc,           \* the receiving session
    \* Receiver on a data connection (src/src/util/Receiver.cc)
    receivers,      \* the Receiver objects: fd_, haveHeader_, offset_, header_, buf_ and the place of the thread
    conns,          \* the data connection at each listener: bytes in flight, close by the peer, frames sent, descriptors enqueued
    rpools,         \* free buffers of each Receiver::pool_
    wqueue,         \* the write queue the Receivers put on
    stopReq,        \* request_stop() was called on the threads
    sentCount,      \* frames and connections the peers have made so far
    \* Transfer request and InfoReceiver (src/UtilJson.cc, src/src/util/InfoReceiver.cc)
    request,        \* the FileInfo list handed to generateTransferRequestMsg
    service,        \* the service connection: the message written to it and the bytes not yet received
    infoRx,         \* the InfoReceiver: fd_, the size of buf_, offset_, haveInfo_
    infoOut,        \* what InfoReceiver::info() returned or threw
    \* ThreadExecutor (src/include/draft/util/ThreadExecutor.hh)
    runq_,          \* ThreadExecutor::runq_ : the Runnable_ objects, each with its thread
    work,           \* the items handed to each runnable and those its runOnce has processed
    \* getFileInfo: the walk of the source path
    walkId,         \* the counter `unsigned fileId`
    walkFirst,      \* FileInfo::id of the first entry that is not a directory
    walkLast        \* the FileInfo pushed last

poolVars == <<list_, free_, bufs, pendingNotify>>
queueVars == <<q_, done_, mtx_, cond_, qpc, qop, qres>>
diffVars == <<journalA, journalB, diffs, dpc>>
journalVars == <<jfile, jinfo, jrecs, jread, jwrite, jpc>>
senderVars == <<squeue, sdesc, siov, sock, hashLog_, spc>>
xferVars == <<info_, fileIter_, readExec_, readResults_, pool_, queue_, hashQueue_, sendExec_, stops, socks, recvExec_, rxPools, rxQueue_, writeExec_, files, hashExec_, journal_, runPc, rxPc>>
recvVars == <<receivers, conns, rpools, wqueue, stopReq, sentCount>>
infoVars == <<request, service, infoRx, infoOut>>
execVars == <<runq_, work>>
walkVars == <<walkId, walkFirst, walkLast>>

vars == <<poolVars, queueVars, diffVars, journalVars, senderVars, xferVars, recvVars, infoVars, execVars, walkVars>>

\* A component that a specification does not run stays in its idle state.
PoolIdle ==
    /\ list_ = <<>>
    /\ free_ = 0
    /\ bufs = <<>>
    /\ pendingNotify = 0

QueueIdle ==
    /\ q_ = <<>>
    /\ done_ = FALSE
    /\ mtx_ = 0
    /\ cond_ = {}
    /\ qpc = <<>>
    /\ qop = <<>>
    /\ qres = <<>>

DiffIdle ==
    /\ journalA = <<>>
    /\ journalB = <<>>
    /\ diffs = <<>>
    /\ dpc = "idle"

JournalIdle ==
    /\ jfile = <<>>
    /\ jinfo = <<>>
    /\ jrecs = <<>>
    /\ jread = <<>>
    /\ jwrite = <<>>
    /\ jpc = "idle"

SenderIdle ==
    /\ squeue = <<>>
    /\ sdesc = <<>>
    /\ siov = <<>>
    /\ sock = <<>>
    /\ hashLog_ = <<>>
    /\ spc = "idle"

XferIdle ==
    /\ info_ = <<>>
    /\ fileIter_ = 0
    /\ readExec_ = <<>>
    /\ readResults_ = <<>>
    /\ pool_ = 0
    /\ queue_ = <<>>
    /\ hashQueue_ = <<>>
    /\ sendExec_ = <<>>
    /\ stops = {}
    /\ socks = <<>>
    /\ recvExec_ = <<>>
    /\ rxPools = <<>>
    /\ rxQueue_ = <<>>
    /\ writeExec_ = "idle"
    /\ files = <<>>
    /\ hashExec_ = <<>>
    /\ journal_ = <<>>
    /\ runPc = "idle"
    /\ rxPc = "idle"

RecvIdle ==
    /\ receivers = <<>>
    /\ conns = <<>>
    /\ rpools = <<>>
    /\ wqueue = <<>>
    /\ stopReq = FALSE
    /\ sentCount = 0

InfoIdle ==
    /\ request = <<>>
    /\ service = <<>>
    /\ infoRx = <<>>
    /\ infoOut = <<>>

ExecIdle ==
    /\ runq_ = <<>>
    /\ work = <<>>

WalkIdle ==
    /\ walkId = 0
    /\ walkFirst = 0
    /\ walkLast = <<>>

IdleExcept(k) ==
    /\ IF k = "pool" THEN TRUE ELSE PoolIdle
    /\ IF k = "queue" THEN TRUE ELSE QueueIdle
    /\ IF k = "diff" THEN TRUE ELSE DiffIdle
    /\ IF k = "journal" THEN TRUE ELSE JournalIdle
    /\ IF k = "sender" THEN TRUE ELSE SenderIdle
    /\ IF k = "xfer" THEN TRUE ELSE XferIdle
    /\ IF k = "recv" THEN TRUE ELSE RecvIdle
    /\ IF k = "info" THEN TRUE ELSE InfoIdle
    /\ IF k = "exec" THEN TRUE ELSE ExecIdle
    /\ IF k = "walk" THEN TRUE ELSE WalkIdle

UnchangedExcept(k) ==
    /\ IF k = "pool" THEN TRUE ELSE UNCHANGED poolVars
    /\ IF k = "queue" THEN TRUE ELSE UNCHANGED queueVars
    /\ IF k = "diff" THEN TRUE ELSE UNCHANGED diffVars
    /\ IF k = "journal" THEN TRUE ELSE UNCHANGED journalVars
    /\ IF k = "sender" THEN TRUE ELSE UNCHANGED senderVars
    /\ IF k = "xfer" THEN TRUE ELSE UNCHANGED xferVars
    /\ IF k = "recv" THEN TRUE ELSE UNCHANGED recvVars
    /\ IF k = "info" THEN TRUE ELSE UNCHANGED infoVars
    /\ IF k = "exec" THEN TRUE ELSE UNCHANGED execVars
    /\ IF k = "walk" THEN TRUE ELSE UNCHANGED walkVars

(***************************************************************************)
(* Helpers                                                                 *)
(***************************************************************************)
Min(a, b) == IF a <= b THEN a ELSE b

Range(s) == {s[i] : i \in DOMAIN s}

(***************************************************************************)
(* BufferPool                                                              *)
(***************************************************************************)
\* Number of buffers of the pool (BufferPool::make(chunkSize, count)).
PoolCount == 2
\* Number of Buffer objects (handles) the program's threads hold.
NumHandles == 3
\* Number of threads that can be between the unlock and the notify of put.
NumThreads == 2

\* FreeList::End, ~size_t{0}.
End == -1
\* The value FreeList::get returns on an empty list, ~0u.
NoIndex == -2

Indices == 0 .. (PoolCount - 1)
Handles == 1 .. NumHandles

\* FreeList::FreeList(size): iota from 1, last entry End; free_ is 0.
FreeListInit ==
    [i \in Indices |-> IF i = PoolCount - 1 THEN End ELSE i + 1]

\* FreeList::get: returns <<idx, free_'>>.
FreeListGet(list, free) ==
    IF free = End THEN <<NoIndex, free>> ELSE <<free, list[free]>>

\* A put that forgets to link the freed index in front of the old head.
FreeListPutNoLink(list, free, idx) ==
    <<list, idx>>

\* FreeList::put: returns <<list_', free_'>>.
FreeListPut(list, free, idx) ==
    <<IF idx \in DOMAIN list THEN [list EXCEPT ![idx] = free] ELSE list, idx>>

\* The free list as the sequence of indices successive FreeList::get calls
\* return; n bounds the walk so that a cyclic list is cut, not followed.
RECURSIVE FreeChain(_, _, _)
FreeChain(list, free, n) ==
    LET r == FreeListGet(list, free)
    IN  IF n = 0 \/ r[1] = NoIndex THEN <<>>
        ELSE <<r[1]>> \o FreeChain(list, r[2], n - 1)

Chain == FreeChain(list_, free_, PoolCount + 1)

\* A Buffer object: not constructed, being returned by a blocked get
\* ("waiting": asleep in cond_.wait, "woken": notified, re-taking the mutex),
\* or live with the fields data_, freeIdx_, pool_ (size_ follows data_).
DeadBuffer == [st |-> "dead", data |-> NoIndex, freeIdx |-> 0, pool |-> FALSE]
EmptyBuffer == [st |-> "live", data |-> NoIndex, freeIdx |-> 0, pool |-> FALSE]
OwningBuffer(idx) == [st |-> "live", data |-> idx, freeIdx |-> idx, pool |-> TRUE]
WaitingBuffer == [DeadBuffer EXCEPT !.st = "waiting"]
WokenBuffer == [DeadBuffer EXCEPT !.st = "woken"]

PoolInit ==
    /\ IdleExcept("pool")
    /\ list_ = FreeListInit
    /\ free_ = 0
    /\ bufs = [h \in Handles |-> DeadBuffer]
    /\ pendingNotify = 0

\* BufferPool::put up to the unlock: the index goes back under the mutex;
\* the notify_one that follows is the separate step Notify.
BufferPoolPut(idx) ==
    LET r == FreeListPut(list_, free_, idx)
    IN  /\ pendingNotify < NumThreads
        /\ list_' = r[1]
        /\ free_' = r[2]
        /\ pendingNotify' = pendingNotify + 1

\* The predicate of cond_.wait in BufferPool::get, evaluated under the mutex
\* (done_ is set by the destructor only, which cannot run while a Buffer or
\* a caller of get holds the pool's shared_ptr): take an index and return
\* the Buffer, or go (back) to sleep.
GetPredicate(h) ==
    LET r == FreeListGet(list_, free_)
    IN  /\ free_' = r[2]
        /\ list_' = list_
        /\ bufs' = [bufs EXCEPT ![h] =
                IF r[1] # NoIndex THEN OwningBuffer(r[1]) ELSE WaitingBuffer]
        /\ UNCHANGED pendingNotify

\* BufferPool::get called; the returned Buffer is constructed into h.
BufferPoolGet(h) ==
    /\ UnchangedExcept("pool")
    /\ bufs[h].st = "dead"
    /\ GetPredicate(h)

\* A notified (or spuriously woken) waiter re-evaluates the predicate.
GetRecheck(h) ==
    /\ UnchangedExcept("pool")
    /\ bufs[h].st = "woken"
    /\ GetPredicate(h)

\* A put that returns without notify_one.
NotifyLost ==
    /\ UnchangedExcept("pool")
    /\ pendingNotify > 0
    /\ pendingNotify' = pendingNotify - 1
    /\ UNCHANGED <<list_, free_, bufs>>

\* cond_.notify_one of BufferPool::put: wakes one sleeping waiter, if any.
Notify ==
    /\ UnchangedExcept("pool")
    /\ pendingNotify > 0
    /\ pendingNotify' = pendingNotify - 1
    /\ \/ \E h \in Handles :
            /\ bufs[h].st = "waiting"
            /\ bufs' = [bufs EXCEPT ![h] = WokenBuffer]
       \/ /\ \A h \in Handles : bufs[h].st # "waiting"
          /\ UNCHANGED bufs
    /\ UNCHANGED <<list_, free_>>

\* A condition variable may wake a waiter without a notify.
SpuriousWake(h) ==
    /\ UnchangedExcept("pool")
    /\ bufs[h].st = "waiting"
    /\ bufs' = [bufs EXCEPT ![h] = WokenBuffer]
    /\ UNCHANGED <<list_, free_, pendingNotify>>

\* Buffer::Buffer(): an empty handle.
BufferDefaultCtor(h) ==
    /\ UnchangedExcept("pool")
    /\ bufs[h].st = "dead"
    /\ bufs' = [bufs EXCEPT ![h] = EmptyBuffer]
    /\ UNCHANGED <<list_, free_, pendingNotify>>

\* A move assignment that leaves the source's pool_ set.
MoveFieldsKeepPool(dst, src) ==
    [bufs EXCEPT ![src] = [EmptyBuffer EXCEPT !.pool = bufs[src].pool],
                 ![dst] = [bufs[src] EXCEPT !.st = "live"]]

\* The field moves of Buffer::operator=(Buffer &&o), in the code's order
\* (data_, size_, freeIdx_, pool_), so that o == *this ends up empty.
MoveFields(dst, src) ==
    [bufs EXCEPT ![dst] = [bufs[src] EXCEPT !.st = "live"],
                 ![src] = EmptyBuffer]

\* Buffer::operator=(Buffer &&o): the target's index, if any, is put back
\* first, then the fields move.
BufferMoveAssign(dst, src) ==
    /\ UnchangedExcept("pool")
    /\ bufs[dst].st = "live"
    /\ bufs[src].st = "live"
    /\ IF bufs[dst].pool
         THEN BufferPoolPut(bufs[dst].freeIdx)
         ELSE UNCHANGED <<list_, free_, pendingNotify>>
    /\ bufs' = MoveFields(dst, src)

\* Buffer::Buffer(Buffer &&o): *this = std::move(o) on default members.
BufferMoveCtor(dst, src) ==
    /\ UnchangedExcept("pool")
    /\ bufs[dst].st = "dead"
    /\ bufs[src].st = "live"
    /\ dst # src
    /\ bufs' = MoveFields(dst, src)
    /\ UNCHANGED <<list_, free_, pendingNotify>>

\* Buffer::~Buffer().
BufferDtor(h) ==
    /\ UnchangedExcept("pool")
    /\ bufs[h].st = "live"
    /\ IF bufs[h].pool
         THEN BufferPoolPut(bufs[h].freeIdx)
         ELSE UNCHANGED <<list_, free_, pendingNotify>>
    /\ bufs' = [bufs EXCEPT ![h] = DeadBuffer]

PoolStep ==
    \/ \E h \in Handles : BufferPoolGet(h)
    \/ \E h \in Handles : GetRecheck(h)
    \/ Notify
    \/ \E h \in Handles : BufferDefaultCtor(h)
    \/ \E d, s \in Handles : BufferMoveAssign(d, s)
    \/ \E d, s \in Handles : BufferMoveCtor(d, s)
    \/ \E h \in Handles : BufferDtor(h)

PoolNext ==
    \/ PoolStep
    \/ \E h \in Handles : SpuriousWake(h)

SpecPool == PoolInit /\ [][PoolNext]_vars

\* The pool without spurious wake-ups, with the scheduling the code relies
\* on: a thread that left put's critical section reaches its notify_one, and
\* a woken waiter gets the mutex again.
SpecPoolFair ==
    /\ PoolInit
    /\ [][PoolStep]_vars
    /\ WF_vars(Notify)
    /\ \A h \in Handles : WF_vars(GetRecheck(h))

(***************************************************************************)
(* WaitQueue (src/include/draft/util/WaitQueue.hh)                         *)
(*                                                                         *)
(* Threads call put, get, tryGet, cancel and resume on one queue.  A call  *)
(* is a sequence of steps: taking mtx_ (or giving up at the deadline),     *)
(* the operation under the mutex, the condition wait, the notify after     *)
(* the unlock.  cancel and resume touch the atomic done_ without mtx_.     *)
(***************************************************************************)
NumQThreads == 2
SizeLimit == 2
DefaultValue == 0

QThreads == 1 .. NumQThreads
QValues == {1, 2}

\* No call in progress.  Besides its arguments a get or tryGet records
\* `after`: whether it began after a cancel() had returned, with done_
\* still set.
NoOp == [kind |-> "none", val |-> DefaultValue, dl |-> FALSE, after |-> FALSE]

\* done_ is set and no cancel() is between its store and its notify_all.
Cancelled == done_ /\ \A u \in QThreads : qpc[u] # "cancel"
NoRes == [kind |-> "none", val |-> DefaultValue]
Res(k, v) == [kind |-> k, val |-> v]

QueueInit ==
    /\ IdleExcept("queue")
    /\ q_ = <<>>
    /\ done_ = FALSE
    /\ mtx_ = 0
    /\ cond_ = {}
    /\ qpc = [t \in QThreads |-> "idle"]
    /\ qop = [t \in QThreads |-> NoOp]
    /\ qres = [t \in QThreads |-> NoRes]

\* A call begins: the thread heads for mtx_ with its arguments.
Call(t, kind, v, dl) ==
    /\ qpc[t] = "idle"
    /\ qpc' = [qpc EXCEPT ![t] = "lock"]
    /\ qop' = [qop EXCEPT ![t] = [kind |-> kind, val |-> v, dl |-> dl,
                                  after |-> kind = "get" /\ Cancelled]]
    /\ qres' = [qres EXCEPT ![t] = NoRes]
    /\ UNCHANGED <<q_, done_, mtx_, cond_>>

\* A call returns r.
Return(t, r) ==
    /\ qpc' = [qpc EXCEPT ![t] = "idle"]
    /\ qop' = [qop EXCEPT ![t] = NoOp]
    /\ qres' = [qres EXCEPT ![t] = r]

Goto(t, pc) ==
    /\ qpc' = [qpc EXCEPT ![t] = pc]
    /\ UNCHANGED <<qop, qres>>

\* put(t), put(t, deadline), put(t, tmo): dl says whether a deadline is given.
WaitQueuePut(t, v, dl) ==
    /\ UnchangedExcept("queue")
    /\ Call(t, "put", v, dl)

\* get(), get(deadline), get(tmo).
WaitQueueGet(t, dl) ==
    /\ UnchangedExcept("queue")
    /\ Call(t, "get", DefaultValue, dl)

\* lk.lock(), a successful lk.try_lock_until, and the re-lock at the end of
\* a condition wait (after a wake-up: "woken", after the deadline: "tmo").
LockAcquire(t) ==
    /\ UnchangedExcept("queue")
    /\ qpc[t] \in {"lock", "woken", "tmo"}
    /\ mtx_ = 0
    /\ mtx_' = t
    /\ Goto(t, IF qpc[t] = "tmo" THEN "heldtmo" ELSE "held")
    /\ UNCHANGED <<q_, done_, cond_>>

\* lk.try_lock_until fails: another thread held mtx_ up to the deadline.
\* doPut then returns TimedOut, doWithCondition an empty optional.
LockTimeout(t) ==
    /\ UnchangedExcept("queue")
    /\ qpc[t] = "lock"
    /\ qop[t].dl
    /\ mtx_ \notin {0, t}
    /\ Return(t, IF qop[t].kind = "put" THEN Res("TimedOut", DefaultValue)
                 ELSE Res("nullopt", DefaultValue))
    /\ UNCHANGED <<q_, done_, mtx_, cond_>>

\* A put operation that pushes whatever the queue holds.
DoPutOpNoLimit(t) ==
    /\ UnchangedExcept("queue")
    /\ qpc[t] = "held"
    /\ qop[t].kind = "put"
    /\ mtx_' = 0
    /\ q_' = Append(q_, qop[t].val)
    /\ Goto(t, "notify")
    /\ UNCHANGED <<done_, cond_>>

\* A put operation that pushes its value twice.
DoPutOpTwice(t) ==
    /\ UnchangedExcept("queue")
    /\ qpc[t] = "held"
    /\ qop[t].kind = "put"
    /\ mtx_' = 0
    /\ IF Len(q_) >= SizeLimit
         THEN /\ q_' = q_
              /\ Return(t, Res("Full", DefaultValue))
         ELSE /\ q_' = Append(Append(q_, qop[t].val), qop[t].val)
              /\ Goto(t, "notify")
    /\ UNCHANGED <<done_, cond_>>

\* The op of doPut under mtx_, and doWithLock's return, which unlocks:
\* Full is returned at once when q_ holds sizeLimit_ elements or more,
\* otherwise the value is pushed and the notify follows.
DoPutOp(t) ==
    /\ UnchangedExcept("queue")
    /\ qpc[t] = "held"
    /\ qop[t].kind = "put"
    /\ mtx_' = 0
    /\ IF Len(q_) >= SizeLimit
         THEN /\ q_' = q_
              /\ Return(t, Res("Full", DefaultValue))
         ELSE /\ q_' = Append(q_, qop[t].val)
              /\ Goto(t, "notify")
    /\ UNCHANGED <<done_, cond_>>

\* cond_.notify_one() of doPut, then return OK.
DoPutNotify(t) ==
    /\ UnchangedExcept("queue")
    /\ qpc[t] = "notify"
    /\ \/ \E w \in cond_ :
            /\ cond_' = cond_ \ {w}
            /\ qpc' = [qpc EXCEPT ![t] = "idle", ![w] = "woken"]
       \/ /\ cond_ = {}
          /\ cond_' = cond_
          /\ qpc' = [qpc EXCEPT ![t] = "idle"]
    /\ qop' = [qop EXCEPT ![t] = NoOp]
    /\ qres' = [qres EXCEPT ![t] = Res("OK", DefaultValue)]
    /\ UNCHANGED <<q_, done_, mtx_>>

\* tryGet(): tryOp's lk.try_lock(); an empty optional when mtx_ is taken.
WaitQueueTryGet(t) ==
    /\ UnchangedExcept("queue")
    /\ qpc[t] = "idle"
    /\ IF mtx_ = 0
         THEN /\ mtx_' = t
              /\ qpc' = [qpc EXCEPT ![t] = "held"]
              /\ qop' = [qop EXCEPT ![t] = [NoOp EXCEPT !.kind = "tryGet",
                                                        !.after = Cancelled]]
              /\ qres' = [qres EXCEPT ![t] = NoRes]
         ELSE /\ mtx_' = mtx_
              /\ Return(t, Res("nullopt", DefaultValue))
    /\ UNCHANGED <<q_, done_, cond_>>

\* The op of tryGet under mtx_: on an empty queue `return { }` builds a
\* Value, so the optional returned is engaged and holds Value{ }.
TryGetOp(t) ==
    /\ UnchangedExcept("queue")
    /\ qpc[t] = "held"
    /\ qop[t].kind = "tryGet"
    /\ mtx_' = 0
    /\ IF q_ = <<>>
         THEN /\ q_' = q_
              /\ Return(t, Res("value", DefaultValue))
         ELSE /\ q_' = Tail(q_)
              /\ Return(t, Res("value", Head(q_)))
    /\ UNCHANGED <<done_, cond_>>

\* The predicate of cond_.wait / cond_.wait_until in doWithCondition,
\* evaluated under mtx_: true ends the wait; false sends the thread to
\* sleep, or, once the deadline has passed, makes wait_until return false
\* and doWithCondition an empty optional.
WaitPredicate(t) ==
    /\ UnchangedExcept("queue")
    /\ qpc[t] \in {"held", "heldtmo"}
    /\ qop[t].kind = "get"
    /\ IF done_ \/ q_ # <<>>
         THEN /\ Goto(t, "chk")
              /\ mtx_' = mtx_
         ELSE IF qpc[t] = "heldtmo"
         THEN /\ Return(t, Res("nullopt", DefaultValue))
              /\ mtx_' = 0
         ELSE /\ Goto(t, "block")
              /\ mtx_' = mtx_
    /\ UNCHANGED <<q_, done_, cond_>>

\* The wait proper: mtx_ is released and the thread sleeps on cond_.
WaitSleep(t) ==
    /\ UnchangedExcept("queue")
    /\ qpc[t] = "block"
    /\ mtx_' = 0
    /\ cond_' = cond_ \cup {t}
    /\ Goto(t, "wait")
    /\ UNCHANGED <<q_, done_>>

\* The deadline of wait_until passes while the thread sleeps.
WaitTimeout(t) ==
    /\ UnchangedExcept("queue")
    /\ qpc[t] = "wait"
    /\ qop[t].dl
    /\ cond_' = cond_ \ {t}
    /\ Goto(t, "tmo")
    /\ UNCHANGED <<q_, done_, mtx_>>

\* A condition variable may wake a sleeper without a notify.
WaitSpurious(t) ==
    /\ UnchangedExcept("queue")
    /\ qpc[t] = "wait"
    /\ cond_' = cond_ \ {t}
    /\ Goto(t, "woken")
    /\ UNCHANGED <<q_, done_, mtx_>>

\* After the wait: `if (done_) return { }; return op();` and the unlock.
\* done_ is read again here; when it was cleared since the predicate saw
\* it set, op() runs front() and pop_front() on an empty deque, which is
\* undefined: any value may come back.
DoGetOp(t) ==
    /\ UnchangedExcept("queue")
    /\ qpc[t] = "chk"
    /\ mtx_' = 0
    /\ IF done_
         THEN /\ q_' = q_
              /\ Return(t, Res("nullopt", DefaultValue))
         ELSE IF q_ = <<>>
         THEN /\ q_' = q_
              /\ \E v \in QValues \cup {DefaultValue} : Return(t, Res("value", v))
         ELSE /\ q_' = Tail(q_)
              /\ Return(t, Res("value", Head(q_)))
    /\ UNCHANGED <<done_, cond_>>

\* cancel(): the store to done_, made without mtx_.
WaitQueueCancel(t) ==
    /\ UnchangedExcept("queue")
    /\ qpc[t] = "idle"
    /\ done_' = TRUE
    /\ qpc' = [qpc EXCEPT ![t] = "cancel"]
    /\ qop' = [qop EXCEPT ![t] = [NoOp EXCEPT !.kind = "cancel"]]
    /\ qres' = [qres EXCEPT ![t] = NoRes]
    /\ UNCHANGED <<q_, mtx_, cond_>>

\* cancel(): cond_.notify_all().
CancelNotifyAll(t) ==
    /\ UnchangedExcept("queue")
    /\ qpc[t] = "cancel"
    /\ cond_' = {}
    /\ qpc' = [u \in QThreads |->
                IF u = t THEN "idle" ELSE IF u \in cond_ THEN "woken" ELSE qpc[u]]
    /\ qop' = [qop EXCEPT ![t] = NoOp]
    /\ UNCHANGED <<q_, done_, mtx_, qres>>

\* resume().
WaitQueueResume(t) ==
    /\ UnchangedExcept("queue")
    /\ qpc[t] = "idle"
    /\ done_
    /\ done_' = FALSE
    /\ qop' = [u \in QThreads |-> [qop[u] EXCEPT !.after = FALSE]]
    /\ UNCHANGED <<q_, mtx_, cond_, qpc, qres>>

QueueStep ==
    \/ \E t \in QThreads, v \in QValues, dl \in BOOLEAN : WaitQueuePut(t, v, dl)
    \/ \E t \in QThreads, dl \in BOOLEAN : WaitQueueGet(t, dl)
    \/ \E t \in QThreads : WaitQueueTryGet(t)
    \/ \E t \in QThreads : WaitQueueCancel(t)
    \/ \E t \in QThreads : WaitQueueResume(t)
    \/ \E t \in QThreads : LockAcquire(t)
    \/ \E t \in QThreads : LockTimeout(t)
    \/ \E t \in QThreads : DoPutOp(t)
    \/ \E t \in QThreads : DoPutNotify(t)
    \/ \E t \in QThreads : TryGetOp(t)
    \/ \E t \in QThreads : WaitPredicate(t)
    \/ \E t \in QThreads : WaitSleep(t)
    \/ \E t \in QThreads : WaitTimeout(t)
    \/ \E t \in QThreads : DoGetOp(t)
    \/ \E t \in QThreads : CancelNotifyAll(t)

QueueNext ==
    \/ QueueStep
    \/ \E t \in QThreads : WaitSpurious(t)

SpecQueue == QueueInit /\ [][QueueNext]_vars

\* A thread inside a call keeps running: every step of a call that is
\* enabled is taken in the end, and a thread that asks for mtx_ gets it when
\* mtx_ is free again and again.  Nothing obliges a caller to begin a call,
\* a deadline to pass or a condition variable to wake without a notify.
QueueFairness ==
    \A t \in QThreads :
        /\ SF_vars(LockAcquire(t))
        /\ WF_vars(DoPutOp(t))
        /\ WF_vars(DoPutNotify(t))
        /\ WF_vars(TryGetOp(t))
        /\ WF_vars(WaitPredicate(t))
        /\ WF_vars(WaitSleep(t))
        /\ WF_vars(DoGetOp(t))
        /\ WF_vars(CancelNotifyAll(t))

SpecQueueFair == SpecQueue /\ QueueFairness

(***************************************************************************)
(* BufferPool: properties                                                  *)
(***************************************************************************)
Owners(i) == {h \in Handles : bufs[h].st = "live" /\ bufs[h].pool /\ bufs[h].freeIdx = i}

InChain(i) == {k \in DOMAIN Chain : Chain[k] = i}

Blocked(h) == bufs[h].st \in {"waiting", "woken"}

\* The Buffer a get returns appears in h: h alone changes, from not
\* constructed or blocked to a live Buffer that refers to the pool.
GetReturns(h) ==
    /\ bufs[h].st # "live"
    /\ bufs'[h].st = "live"
    /\ bufs'[h].pool
    /\ bufs' = [bufs EXCEPT ![h] = bufs'[h]]

\* C8: every index of the pool is either once in the free list or owned by
\* exactly one live Buffer, never both, never by two; a live owning Buffer
\* keeps the base pointer of its own slab; and when no Buffer owns an index
\* the free list holds all PoolCount indices, so PoolCount further gets
\* succeed.
C8_PoolConservation ==
    /\ Len(Chain) <= PoolCount
    /\ \A i \in Indices : Cardinality(InChain(i)) + Cardinality(Owners(i)) = 1
    /\ \A h \in Handles :
          bufs[h].st = "live" =>
             IF bufs[h].pool THEN bufs[h].data = bufs[h].freeIdx /\ bufs[h].freeIdx \in Indices
             ELSE bufs[h].data = NoIndex
    /\ (\A i \in Indices : Owners(i) = {}) =>
          /\ Len(Chain) = PoolCount
          /\ Range(Chain) = Indices

\* C8 witness: every buffer was acquired and is back in the free list, in
\* another order than the initial one, and a moved-from Buffer is still alive.
C8_Witness ==
    /\ Len(Chain) = PoolCount
    /\ Chain[1] # 0
    /\ \E h \in Handles : bufs[h] = EmptyBuffer
    /\ pendingNotify = 0

\* C9: a get returns a Buffer only by taking the head of a non-empty free
\* list (so a get on a depleted pool stays blocked while the pool stays
\* depleted); no wake-up is lost: whenever a waiter sleeps while an index is
\* free, a notify is still pending or another waiter is awake to take it;
\* and a blocked get whose pool has a free index completes, unless the pool
\* is depleted again first.
C9_BlockedGetCompletes ==
    /\ [][\A h \in Handles :
            GetReturns(h) =>
               /\ Chain # <<>>
               /\ bufs'[h] = OwningBuffer(Chain[1])]_vars
    /\ []((Chain # <<>> /\ \E h \in Handles : bufs[h].st = "waiting") =>
            (pendingNotify > 0 \/ \E h \in Handles : bufs[h].st = "woken"))
    /\ \A h \in Handles :
          (Blocked(h) /\ Chain # <<>>) ~> (bufs[h].st = "live" \/ Chain = <<>>)

\* C9 witness: a Buffer was dropped while a get was blocked, and the notify
\* reached the blocked get.
C9_Witness ==
    \E h \in Handles : bufs[h].st = "woken" /\ Chain # <<>>

(***************************************************************************)
(* WaitQueue: properties                                                   *)
(***************************************************************************)
InPut(t) == qop[t].kind = "put"

\* The step in which a put that holds mtx_ runs its operation.
PutOpRuns(t) == qpc[t] = "held" /\ InPut(t) /\ qpc'[t] # "held"

Moves(t) == qpc'[t] # qpc[t]

\* C11: the queue never holds more than sizeLimit elements; a put changes
\* the queue in one step only, the one that takes it from holding mtx_ to
\* the notify, and that step appends the put's value once; a put passes
\* that step at most once (lock, held, notify and the return follow each
\* other without a way back), returns OK exactly when it has passed it,
\* and returns Full or TimedOut without having changed the queue.
C11_PutAddsOnceOrNothing ==
    /\ [](Len(q_) <= SizeLimit)
    /\ [][\A t \in QThreads : (InPut(t) /\ Moves(t)) =>
            /\ <<qpc[t], qpc'[t]>> \in
                  {<<"lock", "held">>, <<"lock", "idle">>, <<"held", "notify">>,
                   <<"held", "idle">>, <<"notify", "idle">>}
            /\ IF qpc'[t] = "notify"
                 THEN q_' = Append(q_, qop[t].val)
                 ELSE q_' = q_
            /\ qpc'[t] = "idle" =>
                  qres'[t].kind = (CASE qpc[t] = "notify" -> "OK"
                                     [] qpc[t] = "held" -> "Full"
                                     [] qpc[t] = "lock" -> "TimedOut")]_vars

\* Two concurrent puts have returned, one OK and one TimedOut, and the
\* queue holds an element.
C11_Witness ==
    \E t, u \in QThreads :
        /\ qres[t].kind = "OK"
        /\ qres[u].kind = "TimedOut"
        /\ qpc[t] = "idle" /\ qpc[u] = "idle"
        /\ q_ # <<>>

\* C12: a get(), get(deadline) or tryGet() that begins after cancel() has
\* returned, with no resume() since, returns an empty optional and takes no
\* element, also when elements are queued (for tryGet the case checked is
\* the one where elements are queued and mtx_ is free); and the two steps
\* of cancel() leave the queue as it was.
C12_CancelledGetsReturnEmpty ==
    /\ [][\A t \in QThreads :
            (qop[t].after /\ qop[t].kind = "get" /\ qpc'[t] = "idle")
                => qres'[t].kind = "nullopt" /\ q_' = q_]_vars
    /\ [][\A t \in QThreads :
            (qop[t].after /\ qop[t].kind = "tryGet" /\ q_ # <<>>
               /\ qpc'[t] = "idle")
                => qres'[t].kind = "nullopt" /\ q_' = q_]_vars
    /\ [][\A t \in QThreads :
            (Moves(t) /\ (qpc[t] = "cancel" \/ qpc'[t] = "cancel"))
                => q_' = q_]_vars

\* A get() without a deadline is in progress: entering, holding mtx_,
\* between its predicate and its sleep, asleep or woken.
InGet(t) == qop[t].kind = "get" /\ ~qop[t].dl

\* C13: a get() without a deadline never sleeps on cond_ with done_ set
\* unless a notify is still to come from a call in progress; and every
\* get() without a deadline that is in progress while done_ is set returns
\* an empty optional, unless resume() clears done_ first.
C13_CancelWakesEveryGet ==
    /\ [](\A t \in QThreads :
            (InGet(t) /\ qpc[t] = "wait" /\ done_)
                => \E u \in QThreads : qop[u].kind \in {"put", "cancel"})
    /\ \A t \in QThreads :
          (InGet(t) /\ done_)
             ~> ((qpc[t] = "idle" /\ qres[t].kind = "nullopt") \/ ~done_)

\* C39: a tryGet() that finds mtx_ taken returns an empty optional and
\* leaves the queue alone; one that takes mtx_ removes and returns the
\* oldest element when there is one, and on an empty queue returns an
\* empty optional, never an optional that holds Value{ }.
C39_TryGetOldestOrEmpty ==
    /\ [][\A t \in QThreads :
            (qpc[t] = "idle" /\ qpc'[t] = "idle" /\ qres'[t] # qres[t]
               /\ mtx_ # 0)
                => (qres'[t].kind = "nullopt" /\ q_' = q_)]_vars
    /\ [][\A t \in QThreads :
            (qop[t].kind = "tryGet" /\ qpc[t] = "held" /\ qpc'[t] = "idle")
                => IF q_ = <<>>
                     THEN qres'[t].kind = "nullopt" /\ q_' = q_
                     ELSE /\ qres'[t] = Res("value", Head(q_))
                          /\ q_' = Tail(q_)]_vars

(***************************************************************************)
(* diffJournals (src/src/util/JournalOperations.cc)                        *)
(*                                                                         *)
(* A journal is the sequence of its hash records in file order, which is   *)
(* the order begin() .. end() walks.                                       *)
(***************************************************************************)
MaxRecords == 2

\* The keys, sizes and hashes the records are drawn from.
DiffKeys == {[fileId |-> 1, offset |-> 4096], [fileId |-> 2, offset |-> 0]}
DiffSizes == {100, 4096}
DiffHashes == {7, 9}

HashRecords ==
    {[fileId |-> k.fileId, offset |-> k.offset, size |-> sz, hash |-> h] :
        k \in DiffKeys, sz \in DiffSizes, h \in DiffHashes}

Journals == UNION {[1 .. n -> HashRecords] : n \in 0 .. MaxRecords}

\* Key{record.fileId, record.offset} and its operator<=>.
Key(record) == [file |-> record.fileId, offset |-> record.offset]

KeyLess(a, b) == a.file < b.file \/ (a.file = b.file /\ a.offset < b.offset)

Difference(offset, size, hashA, hashB, fileId) ==
    [offset |-> offset, size |-> size, hashA |-> hashA, hashB |-> hashB,
     fileId |-> fileId]

\* The state of the walk: the std::map and the diffs vector.
DiffStart == [map |-> <<>>, diffs |-> <<>>]

\* A diff lambda that leaves a matched entry in the map.
diffNoErase(st, record, which) ==
    IF Key(record) \in DOMAIN st.map
      THEN st
      ELSE [st EXCEPT !.map = (Key(record) :>
                [size |-> record.size, hash |-> record.hash, which |-> which])
                @@ st.map]

\* The lambda `diff`: a record whose key is in the map is compared with the
\* entry found, whichever journal that entry came from, a Difference is
\* pushed when the hashes differ, and the entry is erased; a record whose
\* key is not in the map is inserted.
diff(st, record, which) ==
    IF Key(record) \in DOMAIN st.map
      THEN LET other == st.map[Key(record)]
           IN  [map |-> [k \in DOMAIN st.map \ {Key(record)} |-> st.map[k]],
                diffs |->
                    IF record.hash # other.hash
                      THEN Append(st.diffs, Difference(
                            record.offset, record.size,
                            IF which = "A" THEN record.hash ELSE other.hash,
                            IF which = "B" THEN record.hash ELSE other.hash,
                            record.fileId))
                      ELSE st.diffs]
      ELSE [st EXCEPT !.map = (Key(record) :>
                [size |-> record.size, hash |-> record.hash, which |-> which])
                @@ st.map]

\* The while loop: each round takes the next record of A, if any, then the
\* next record of B, if any.
RECURSIVE DiffWalk(_, _, _, _)
DiffWalk(st, A, B, i) ==
    IF i > Len(A) /\ i > Len(B) THEN st
    ELSE LET sa == IF i <= Len(A) THEN diff(st, A[i], "A") ELSE st
             sb == IF i <= Len(B) THEN diff(sa, B[i], "B") ELSE sa
         IN  DiffWalk(sb, A, B, i + 1)

\* The std::transform over what is left in the map, in key order.
RECURSIVE Leftovers(_)
Leftovers(map) ==
    IF DOMAIN map = {} THEN <<>>
    ELSE LET k == CHOOSE x \in DOMAIN map :
                    \A y \in DOMAIN map \ {x} : KeyLess(x, y)
             v == map[k]
         IN  <<Difference(k.offset, v.size,
                          IF v.which = "A" THEN v.hash ELSE 0,
                          IF v.which = "B" THEN v.hash ELSE 0,
                          k.file)>>
             \o Leftovers([y \in DOMAIN map \ {k} |-> map[y]])

diffJournals(A, B) ==
    LET st == DiffWalk(DiffStart, A, B, 1)
    IN  st.diffs \o Leftovers(st.map)

DiffInit ==
    /\ IdleExcept("diff")
    /\ journalA \in Journals
    /\ journalB \in Journals
    /\ diffs = <<>>
    /\ dpc = "input"

\* diffJournals(journalA, journalB) is called and returns.
DiffCall ==
    /\ UnchangedExcept("diff")
    /\ dpc = "input"
    /\ diffs' = diffJournals(journalA, journalB)
    /\ dpc' = "done"
    /\ UNCHANGED <<journalA, journalB>>

DiffNext == DiffCall

SpecDiff == DiffInit /\ [][DiffNext]_vars

(***************************************************************************)
(* diffJournals: properties                                                *)
(***************************************************************************)
KeysOf(J) == {Key(J[i]) : i \in DOMAIN J}

HashesOf(J, k) == {J[i].hash : i \in {j \in DOMAIN J : Key(J[j]) = k}}

DiffKey(d) == [file |-> d.fileId, offset |-> d.offset]

\* The journals holding the records of J in some order.
Reorderings(J) ==
    {[i \in DOMAIN J |-> J[p[i]]] : p \in Permutations(DOMAIN J)}

Swapped(d) == [d EXCEPT !.hashA = d.hashB, !.hashB = d.hashA]

\* C4: the differences returned are, as a set, one per key recorded in
\* both journals with different hashes (A's hash in hashA, B's in hashB),
\* one per key recorded in one journal only (that journal's hash on its
\* side, 0 on the other), none for a key recorded in both with the same
\* hash; and reordering the records of A or of B does not change the set.
\* A key for which a journal records several hashes is constrained only
\* where every reading of the claim agrees.
C4_DiffIsKeyWise ==
    dpc = "done" =>
        LET D == Range(diffs)
            KA == KeysOf(journalA)
            KB == KeysOf(journalB)
        IN  /\ \A d \in D : DiffKey(d) \in KA \cup KB
            /\ \A k \in KA \cup KB :
                LET Dk == {d \in D : DiffKey(d) = k}
                    hA == HashesOf(journalA, k)
                    hB == HashesOf(journalB, k)
                IN  IF k \notin KB
                      THEN \E d \in Dk :
                            Dk = {d} /\ d.hashA \in hA /\ d.hashB = 0
                    ELSE IF k \notin KA
                      THEN \E d \in Dk :
                            Dk = {d} /\ d.hashB \in hB /\ d.hashA = 0
                    ELSE IF hA = hB /\ Cardinality(hA) = 1
                      THEN Dk = {}
                    ELSE IF hA \cap hB = {}
                      THEN \E d \in Dk :
                            Dk = {d} /\ d.hashA \in hA /\ d.hashB \in hB
                    ELSE TRUE
            /\ \A A \in Reorderings(journalA), B \in Reorderings(journalB) :
                Range(diffJournals(A, B)) = D

\* C5: diffJournals(B, A) returns the set diffJournals(A, B) returns, with
\* hashA and hashB swapped in every Difference.
C5_DiffSymmetric ==
    dpc = "done" =>
        Range(diffJournals(journalB, journalA))
            = {Swapped(d) : d \in Range(diffs)}

MaxFileInfos == 2
MaxHashes == 2
JournalHeaderOffset == 64
JournalBlockSize == 512
HashRecordSize == 32
WordSize == 8
NoPosition == -1
JournalMagic == "DRAFTJF "

\* Unsigned comparison on size_t values.
ULess(a, b) == IF (a < 0) = (b < 0) THEN a < b ELSE b < 0

Abs(n) == IF n < 0 THEN -n ELSE n

\* The FileInfo values journals are created with.
FilePaths == {"foo", "some/long/path"}
FileStatus ==
    [mode |-> 420, uid |-> 1000, gid |-> 1001, dev |-> 0, blkSize |-> 512,
     blkCount |-> 1, size |-> 84]
FileInfos ==
    {[path |-> p, targetSuffix |-> sfx, status |-> FileStatus, id |-> id] :
        p \in FilePaths, sfx \in {"", ".part"}, id \in {42}}

FileInfoLists == UNION {[1 .. n -> FileInfos] : n \in 0 .. MaxFileInfos}

\* to_json(json, FileInfo::Status) and from_json.
StatusToJson(status) ==
    [mode |-> status.mode, uid |-> status.uid, gid |-> status.gid,
     dev |-> status.dev, blksize |-> status.blkSize,
     blocks |-> status.blkCount, size |-> status.size]

StatusFromJson(j) ==
    [mode |-> j.mode, uid |-> j.uid, gid |-> j.gid, dev |-> j.dev,
     blkSize |-> j.blksize, blkCount |-> j.blocks, size |-> j.size]

\* A to_json that always writes the target_suffix key and drops the id.
FileInfoToJsonNoId(info) ==
    [path |-> info.path, status |-> StatusToJson(info.status), id |-> 0,
     target_suffix |-> info.targetSuffix]

\* to_json(json, FileInfo): target_suffix is written only when not empty.
FileInfoToJson(info) ==
    IF info.targetSuffix # ""
      THEN [path |-> info.path, status |-> StatusToJson(info.status),
            id |-> info.id, target_suffix |-> info.targetSuffix]
      ELSE [path |-> info.path, status |-> StatusToJson(info.status),
            id |-> info.id]

\* from_json(json, FileInfo), into a default-constructed FileInfo.
FileInfoFromJson(j) ==
    [path |-> j.path,
     targetSuffix |-> IF "target_suffix" \in DOMAIN j
                        THEN j.target_suffix ELSE "",
     status |-> StatusFromJson(j.status),
     id |-> j.id]

\* The records handed to writeHash.
JournalRecords ==
    {[hash |-> h, offset |-> 4096, size |-> 100, fileId |-> f] :
        h \in {7, 9}, f \in {1, 2}}

\* The bytes nlohmann::json::to_cbor appends for the journal header: the
\* encoding's length grows with the file list, so the header takes one
\* journal block or two.
CborHeaderBytes == 93
CborFileInfoBytes == 230
CborBytes(headerJson) ==
    CborHeaderBytes + Len(headerJson.file_info) * CborFileInfoBytes

\* buf.resize((buf.size() + JournalBlockSize - 1) & ~(JournalBlockSize - 1))
AlignUp(n) == ((n + JournalBlockSize - 1) \div JournalBlockSize) * JournalBlockSize

NoFile == [exists |-> FALSE]

\* Journal::writeHeader on the new, empty file: posix_fallocate and the
\* write at offset 0 leave a file of journalOffset bytes.
WriteHeader(info, now) ==
    LET headerJson ==
            [version_major |-> 0, version_minor |-> 0,
             birthdate_epoch_nsec |-> now,
             journal_alignment |-> JournalBlockSize,
             file_info |-> [i \in DOMAIN info |-> FileInfoToJson(info[i])]]
        cborSize == CborBytes(headerJson)
        bufSize == AlignUp(JournalHeaderOffset + cborSize)
    IN  [exists |-> TRUE, magic |-> JournalMagic, journalOffset |-> bufSize,
         cborSize |-> cborSize, cbor |-> headerJson, size |-> bufSize,
         words |-> <<>>]

\* The HashRecord built by writeHash(fileId, offset, size, hash); the
\* fileId parameter is a uint16_t.
HashRecordOf(fileId, offset, size, hash) ==
    [hash |-> hash, offset |-> offset, size |-> size, fileId |-> fileId % 65536]

\* A record laid out with offset and size exchanged.
RecordWordsSwapped(record) == <<record.hash, record.size, record.offset, record.fileId>>

\* The 32 bytes of a HashRecord: hash, offset, size, then fileId and padding.
RecordWords(record) == <<record.hash, record.offset, record.size, record.fileId>>

\* pwritev2 with RWF_APPEND that accepts the 8-byte words ws: they land at
\* the end of the file as it is at the time of the call, whatever offset
\* the caller passes.
AppendWords(file, ws) ==
    [file EXCEPT !.words = file.words \o ws,
                 !.size = file.size + Len(ws) * WordSize]

\* Journal::writeHash(record) when one pwritev2 accepts all 32 bytes.
AppendRecord(file, record) == AppendWords(file, RecordWords(record))

\* internal::journalRecordCount
journalRecordCount(file, hashOffset) ==
    IF file.size <= hashOffset THEN 0
    ELSE (file.size - hashOffset) \div HashRecordSize

\* Journal::hashCount
hashCount(file) == journalRecordCount(file, file.journalOffset)

\* Journal::fileInfo: the CBOR payload read back and converted.
fileInfo(file) ==
    [i \in DOMAIN file.cbor.file_info |-> FileInfoFromJson(file.cbor.file_info[i])]

\* A uint64_t as four 16-bit groups, the most significant first; U64(n) is
\* the small value n, and U64Less the unsigned comparison.
U64(n) == <<0, 0, n \div 65536, n % 65536>>

U64Less(a, b) ==
    \E i \in 1 .. 4 : a[i] < b[i] /\ \A k \in 1 .. i - 1 : a[k] = b[k]

\* std::numeric_limits<off_t>::max(), 2^63 - 1.
OffMax == <<32767, 65535, 65535, 65535>>

\* readFileHeader: the FileHeader is zero-initialised and readChunk stops at
\* the end of the file, so what a short file lacks stays zero.  `magic` is
\* bytes 0..7 of the file and `journalOffset` bytes 8..15.
readFileHeader(file) ==
    [magic |-> IF file.size >= 8 THEN file.magic ELSE "",
     journalOffset |-> IF file.size >= 16 THEN file.journalOffset ELSE U64(0)]

\* A checkFileHeader that does not look at the magic.
checkFileHeaderNoMagic(file) ==
    LET header == readFileHeader(file)
    IN  IF ~U64Less(header.journalOffset, OffMax) THEN "offset too large"
        ELSE IF U64Less(U64(file.size), header.journalOffset)
          THEN "offset beyond file size"
        ELSE "ok"

\* Journal::checkFileHeader on an open file: "ok", or the check that throws.
checkFileHeader(file) ==
    LET header == readFileHeader(file)
    IN  IF ~U64Less(header.journalOffset, OffMax) THEN "offset too large"
        ELSE IF U64Less(U64(file.size), header.journalOffset)
          THEN "offset beyond file size"
        ELSE IF header.magic # JournalMagic THEN "invalid magic"
        ELSE "ok"

\* Journal::Journal(path): open(O_RDONLY), then checkFileHeader.
OpenReadOnly(file) ==
    IF ~file.exists THEN "unable to open" ELSE checkFileHeader(file)

\* The bytes on disk of a journal file this model has written.
OnDisk(file) ==
    [exists |-> TRUE, size |-> file.size, magic |-> file.magic,
     journalOffset |-> U64(file.journalOffset)]

\* Journal::Journal(path) succeeds on a journal this model has written.
CheckFileHeaderOk(file) ==
    /\ file.exists
    /\ OpenReadOnly(OnDisk(file)) = "ok"

\* A seek for which an invalid cursor stays where it is on a negative
\* count relative to Current.
CursorSeekNoEndRelative(idx, count, whence, recordCount) ==
    LET countAbsSz == Abs(count)
        newIdx == idx + countAbsSz
    IN  IF recordCount = 0 THEN idx
        ELSE IF whence = "Set"
          THEN IF count < 0 \/ countAbsSz > recordCount
                 THEN NoPosition ELSE countAbsSz
        ELSE IF whence = "Current"
          THEN IF count < 0
                 THEN IF idx = NoPosition THEN idx
                      ELSE IF ULess(idx, countAbsSz) THEN NoPosition
                      ELSE idx - countAbsSz
               ELSE IF ULess(newIdx, idx) \/ ~ULess(newIdx, recordCount)
                 THEN NoPosition
               ELSE IF idx # NoPosition THEN idx + countAbsSz ELSE idx
        ELSE IF count >= 0 \/ countAbsSz > recordCount
               THEN NoPosition ELSE recordCount - countAbsSz

\* Cursor::seek: the new recordIdx_.
CursorSeek(idx, count, whence, recordCount) ==
    LET countAbsSz == Abs(count)
        newIdx == idx + countAbsSz
    IN  IF recordCount = 0 THEN idx
        ELSE IF whence = "Set"
          THEN IF count < 0 \/ countAbsSz > recordCount
                 THEN NoPosition ELSE countAbsSz
        ELSE IF whence = "Current"
          THEN IF count < 0
                 THEN IF idx = NoPosition THEN recordCount - countAbsSz
                      ELSE IF ULess(idx, countAbsSz) THEN NoPosition
                      ELSE idx - countAbsSz
               ELSE IF ULess(newIdx, idx) \/ ~ULess(newIdx, recordCount)
                 THEN NoPosition
               ELSE IF idx # NoPosition THEN idx + countAbsSz ELSE idx
        ELSE IF count >= 0 \/ countAbsSz > recordCount
               THEN NoPosition ELSE recordCount - countAbsSz

\* Cursor::valid
CursorValid(idx, recordCount) == recordCount # 0 /\ ULess(idx, recordCount)

Nothing == [none |-> TRUE]

\* Cursor::hashRecord: the 32 bytes at hashOffset_ + recordIdx_ * 32.
hashRecord(file, hashOffset, idx) ==
    IF ~CursorValid(idx, journalRecordCount(file, hashOffset)) THEN Nothing
    ELSE LET w == (hashOffset + idx * HashRecordSize - file.journalOffset)
                        \div WordSize
         IN  [hash |-> file.words[w + 1], offset |-> file.words[w + 2],
              size |-> file.words[w + 3], fileId |-> file.words[w + 4]]

\* Journal::begin and Journal::end: a fresh cursor (recordIdx_ = ~0,
\* hashOffset_ = the header's journalOffset), then seek(0, Set) / seek(0, End).
JournalBegin(file) ==
    CursorSeek(NoPosition, 0, "Set", journalRecordCount(file, file.journalOffset))

JournalEnd(file) ==
    CursorSeek(NoPosition, 0, "End", journalRecordCount(file, file.journalOffset))

JournalInit ==
    /\ IdleExcept("journal")
    /\ jfile = NoFile
    /\ jinfo = <<>>
    /\ jrecs = <<>>
    /\ jread = <<>>
    /\ jwrite = <<>>
    /\ jpc = "none"

\* Journal(path, info): the file is created and the header written.
JournalCreate(info, now) ==
    /\ UnchangedExcept("journal")
    /\ jpc = "none"
    /\ ~jfile.exists
    /\ jfile' = WriteHeader(info, now)
    /\ jinfo' = info
    /\ jpc' = "writing"
    /\ UNCHANGED <<jrecs, jread, jwrite>>

\* writeHash(record).
JournalWriteHash(record) ==
    /\ UnchangedExcept("journal")
    /\ jpc = "writing"
    /\ Len(jrecs) < MaxHashes
    /\ jfile' = AppendRecord(jfile, record)
    /\ jrecs' = Append(jrecs, record)
    /\ UNCHANGED <<jinfo, jread, jwrite, jpc>>

\* writeHash(fileId, offset, size, hash).
JournalWriteHashFields(fileId, offset, size, hash) ==
    JournalWriteHash(HashRecordOf(fileId, offset, size, hash))

\* Journal(path): the read-only open; then fileInfo(), hashCount(), and
\* begin() and end() for a walk over the records.
JournalOpen ==
    /\ UnchangedExcept("journal")
    /\ jpc = "writing"
    /\ CheckFileHeaderOk(jfile)
    /\ jread' = [fileInfo |-> fileInfo(jfile), hashCount |-> hashCount(jfile),
                 it |-> JournalBegin(jfile), end |-> JournalEnd(jfile),
                 out |-> <<>>]
    /\ jpc' = "reading"
    /\ UNCHANGED <<jfile, jinfo, jrecs, jwrite>>

\* One round of `for (it = begin(); it != end(); ++it)`: *it, which throws
\* when the cursor has no record, then ++it, which is seek(1, Current).
JournalIterStep ==
    /\ UnchangedExcept("journal")
    /\ jpc = "reading"
    /\ jread.it # jread.end
    /\ LET record == hashRecord(jfile, jfile.journalOffset, jread.it)
       IN  IF record = Nothing
             THEN /\ jpc' = "threw"
                  /\ jread' = jread
             ELSE /\ jpc' = jpc
                  /\ jread' = [jread EXCEPT
                        !.out = Append(jread.out, record),
                        !.it = CursorSeek(jread.it, 1, "Current",
                                journalRecordCount(jfile, jfile.journalOffset))]
    /\ UNCHANGED <<jfile, jinfo, jrecs, jwrite>>

\* it == end(): the walk is over.
JournalIterEnd ==
    /\ UnchangedExcept("journal")
    /\ jpc = "reading"
    /\ jread.it = jread.end
    /\ jpc' = "done"
    /\ UNCHANGED <<jfile, jinfo, jrecs, jread, jwrite>>

\* After the forward walk, with it == end(): begin() + N and end() - N for
\* N = hashCount() (operator+ and operator- copy the iterator and apply +=
\* and -=, which are seek(N) and seek(-N)), kept for the comparison with
\* end() and begin().
JournalIterArith ==
    /\ UnchangedExcept("journal")
    /\ jpc = "done"
    /\ LET n == journalRecordCount(jfile, jfile.journalOffset)
       IN  jread' = [fileInfo |-> jread.fileInfo, hashCount |-> jread.hashCount,
                     it |-> jread.it, end |-> jread.end, out |-> jread.out,
                     begin |-> JournalBegin(jfile),
                     beginPlusN |-> CursorSeek(JournalBegin(jfile), hashCount(jfile),
                                               "Current", n),
                     endMinusN |-> CursorSeek(JournalEnd(jfile), -hashCount(jfile),
                                              "Current", n),
                     back |-> <<>>]
    /\ jpc' = "back"
    /\ UNCHANGED <<jfile, jinfo, jrecs, jwrite>>

\* One step back: --it, which is seek(-1, Current), then *it; as many
\* steps back as the forward walk made.
JournalIterBack ==
    /\ UnchangedExcept("journal")
    /\ jpc = "back"
    /\ Len(jread.back) < Len(jread.out)
    /\ LET it == CursorSeek(jread.it, -1, "Current",
                            journalRecordCount(jfile, jfile.journalOffset))
           record == hashRecord(jfile, jfile.journalOffset, it)
       IN  IF record = Nothing
             THEN /\ jpc' = "threw"
                  /\ jread' = [jread EXCEPT !.it = it]
             ELSE /\ jpc' = jpc
                  /\ jread' = [jread EXCEPT !.it = it,
                                            !.back = Append(jread.back, record)]
    /\ UNCHANGED <<jfile, jinfo, jrecs, jwrite>>

\* The walk back has made as many steps as the walk forward.
JournalIterBackEnd ==
    /\ UnchangedExcept("journal")
    /\ jpc = "back"
    /\ Len(jread.back) = Len(jread.out)
    /\ jpc' = "backdone"
    /\ UNCHANGED <<jfile, jinfo, jrecs, jread, jwrite>>

JournalNext ==
    \/ JournalIterArith
    \/ JournalIterBack
    \/ JournalIterBackEnd
    \/ \E info \in FileInfoLists, now \in {1} : JournalCreate(info, now)
    \/ \E record \in JournalRecords : JournalWriteHash(record)
    \/ \E record \in JournalRecords :
        JournalWriteHashFields(record.fileId, record.offset, record.size, record.hash)
    \/ JournalOpen
    \/ JournalIterStep
    \/ JournalIterEnd

SpecJournal == JournalInit /\ [][JournalNext]_vars

\* Several threads in writeHash on one journal (the Hashers of a session
\* share it).  The journal exists with an empty file list and no record.
NumWriters == 2
Writers == 1 .. NumWriters
NoIov == <<>>

AppendInit ==
    /\ IdleExcept("journal")
    /\ jfile = WriteHeader(<<>>, 1)
    /\ jinfo = <<>>
    /\ jrecs = <<>>
    /\ jread = <<>>
    /\ jwrite = [t \in Writers |-> NoIov]
    /\ jpc = "writing"

\* writeHash(record) begins in thread t: iov = {&record, sizeof(record)}.
WriteHashCall(t, record) ==
    /\ UnchangedExcept("journal")
    /\ jpc = "writing"
    /\ jwrite[t] = NoIov
    /\ Len(jrecs) < MaxHashes
    /\ jwrite' = [jwrite EXCEPT ![t] = RecordWords(record)]
    /\ jrecs' = Append(jrecs, record)
    /\ UNCHANGED <<jfile, jinfo, jread, jpc>>

\* One round of writeChunk's loop in thread t: pwritev2(fd, iov, 1, offset,
\* RWF_APPEND) accepts n words, 0 < n <= the words left; iov is advanced
\* past them, and the loop goes round again while words are left.  After
\* the last round writeChunk returns sizeof(record) and writeHash 0.
WriteChunkAppend(t, n) ==
    /\ UnchangedExcept("journal")
    /\ jwrite[t] # NoIov
    /\ n \in 1 .. Len(jwrite[t])
    /\ jfile' = AppendWords(jfile, SubSeq(jwrite[t], 1, n))
    /\ jwrite' = [jwrite EXCEPT ![t] = SubSeq(jwrite[t], n + 1, Len(jwrite[t]))]
    /\ UNCHANGED <<jinfo, jrecs, jread, jpc>>

AppendNext ==
    \/ \E t \in Writers, record \in JournalRecords : WriteHashCall(t, record)
    \/ \E t \in Writers, n \in 1 .. HashRecordSize \div WordSize : WriteChunkAppend(t, n)

SpecAppend == AppendInit /\ [][AppendNext]_vars

\* The two constructors on whatever is found at the path: nothing, or a
\* file of some size with some first sixteen bytes.
DiskSizes == {0, 8, 24, JournalBlockSize, 2 * JournalBlockSize}
DiskMagics == {JournalMagic, "DRAFTJF", "draftjf "}
DiskOffsets ==
    {U64(0), U64(JournalBlockSize), U64(JournalBlockSize + 1),
     U64(2 * JournalBlockSize),
     <<32767, 65535, 65535, 65534>>, OffMax, <<32768, 0, 0, 0>>,
     <<65535, 65535, 65535, 65535>>}

DiskFiles ==
    {NoFile}
      \cup {[exists |-> TRUE, size |-> s, magic |-> m, journalOffset |-> o] :
                s \in {n \in DiskSizes : n >= 16}, m \in DiskMagics, o \in DiskOffsets}
      \cup {[exists |-> TRUE, size |-> s, magic |-> m, journalOffset |-> U64(0)] :
                s \in {n \in DiskSizes : n >= 8 /\ n < 16}, m \in DiskMagics}
      \cup {[exists |-> TRUE, size |-> s, magic |-> "", journalOffset |-> U64(0)] :
                s \in {n \in DiskSizes : n < 8}}

FilesInit ==
    /\ IdleExcept("journal")
    /\ jfile \in DiskFiles
    /\ jinfo = <<>>
    /\ jrecs = <<>>
    /\ jread = <<>>
    /\ jwrite = <<>>
    /\ jpc = "none"

\* Journal(path): either the handle exists afterwards or the constructor
\* has thrown.
JournalOpenPath ==
    /\ UnchangedExcept("journal")
    /\ jpc = "none"
    /\ jread' = [ctor |-> "open", result |-> OpenReadOnly(jfile)]
    /\ jpc' = IF OpenReadOnly(jfile) = "ok" THEN "opened" ELSE "threw"
    /\ UNCHANGED <<jfile, jinfo, jrecs, jwrite>>

\* Journal(path, info) where a file exists: open(O_CREAT | O_EXCL) fails
\* with EEXIST and the constructor throws; the file is not touched.
JournalCreateExists(info) ==
    /\ UnchangedExcept("journal")
    /\ jpc = "none"
    /\ jfile.exists
    /\ jread' = [ctor |-> "create", result |-> "unable to create"]
    /\ jinfo' = info
    /\ jpc' = "threw"
    /\ UNCHANGED <<jfile, jrecs, jwrite>>

FilesNext ==
    \/ JournalOpenPath
    \/ \E info \in FileInfoLists, now \in {1} : JournalCreate(info, now)
    \/ \E info \in FileInfoLists : JournalCreateExists(info)

SpecFiles == FilesInit /\ [][FilesNext]_vars

\* A cursor on a journal that is still being written.  jread is the cursor
\* (recordIdx_, hashOffset_) together with the call that last set it:
\* the position it started from and the record count the call saw.
MaxWrap == 6
SeekCounts == -(MaxHashes + 2) .. MaxHashes + 2
Whences == {"Set", "Current", "End"}

CursorAt(idx, op, count, whence, from, n) ==
    [idx |-> idx, hashOffset |-> jfile.journalOffset,
     last |-> [op |-> op, count |-> count, whence |-> whence, from |-> from, n |-> n]]

\* Journal::cursor(): a new Cursor, recordIdx_ = ~0.
JournalCursor ==
    /\ UnchangedExcept("journal")
    /\ jpc = "writing"
    /\ jread' = CursorAt(NoPosition, "cursor", 0, "Set", NoPosition,
                         hashCount(jfile))
    /\ UNCHANGED <<jfile, jinfo, jrecs, jwrite, jpc>>

\* Journal::begin() and Journal::end().
JournalBeginEnd(whence) ==
    /\ UnchangedExcept("journal")
    /\ jpc = "writing"
    /\ whence \in {"Set", "End"}
    /\ jread' = CursorAt(IF whence = "Set" THEN JournalBegin(jfile)
                                           ELSE JournalEnd(jfile),
                         IF whence = "Set" THEN "begin" ELSE "end",
                         0, whence, NoPosition, hashCount(jfile))
    /\ UNCHANGED <<jfile, jinfo, jrecs, jwrite, jpc>>

\* The cursor after seek(count, whence) called as `op`.  Positions below
\* ~0 - MaxWrap are left out.
Seek(op, count, whence) ==
    /\ UnchangedExcept("journal")
    /\ jpc = "writing"
    /\ jread # <<>>
    /\ LET n == journalRecordCount(jfile, jread.hashOffset)
           idx == CursorSeek(jread.idx, count, whence, n)
       IN  /\ idx >= NoPosition - MaxWrap
           /\ jread' = CursorAt(idx, op, count, whence, jread.idx, n)
    /\ UNCHANGED <<jfile, jinfo, jrecs, jwrite, jpc>>

\* Cursor::seek(count, whence).
CursorSeekCall(count, whence) == Seek("seek", count, whence)

\* CursorIter::operator+=(offset) and operator++ (offset 1).
IterAdd(offset) == Seek("+=", offset, "Current")

\* CursorIter::operator-=(offset) and operator-- (offset 1).
IterSub(offset) == Seek("-=", -offset, "Current")

CursorNext ==
    \/ \E record \in JournalRecords : JournalWriteHash(record)
    \/ JournalCursor
    \/ \E whence \in Whences : JournalBeginEnd(whence)
    \/ \E count \in SeekCounts, whence \in Whences : CursorSeekCall(count, whence)
    \/ \E offset \in SeekCounts : IterAdd(offset)
    \/ \E offset \in SeekCounts : IterSub(offset)

SpecCursor == AppendInit /\ [][CursorNext]_vars

(***************************************************************************)
(* Journal: properties                                                     *)
(***************************************************************************)
\* C3: for a journal created with the FileInfo list S (jinfo) to which
\* r1..rn (jrecs) were appended with writeHash, a read-only open yields
\* fileInfo() = S and hashCount() = n, and the walk from begin() to end()
\* yields exactly r1..rn in append order, without an out-of-range access.
C3_JournalRoundTrip ==
    /\ jpc = "reading" =>
        /\ jread.fileInfo = jinfo
        /\ jread.hashCount = Len(jrecs)
        /\ jread.out = SubSeq(jrecs, 1, Len(jread.out))
    /\ jpc = "done" => jread.out = jrecs
    /\ jpc # "threw"

\* A journal with a full file list, with and without target suffix, and
\* MaxHashes records has been read back completely.
C3_Witness ==
    /\ jpc = "done"
    /\ Len(jinfo) = MaxFileInfos
    /\ \E i, k \in DOMAIN jinfo :
        jinfo[i].targetSuffix = "" /\ jinfo[k].targetSuffix # ""
    /\ Len(jrecs) = MaxHashes
    /\ jread.out = jrecs

\* The records of the hash region, four words each (the last one short
\* when the region is not a multiple of 32 bytes long).
RegionRecords(file) ==
    [i \in 1 .. (Len(file.words) + 3) \div 4 |->
        SubSeq(file.words, 4 * i - 3, Min(4 * i, Len(file.words)))]

\* How often x occurs in the sequence s.
Count(s, x) == Cardinality({i \in DOMAIN s : s[i] = x})

\* C14: a pwritev2 only adds bytes after those the file holds, and whenever
\* no writeHash is in progress the hash region is a multiple of 32 bytes
\* long and holds whole records only, each submitted record as often as it
\* was submitted and nothing else.
C14_ConcurrentAppendsWhole ==
    /\ [][jpc = "writing" /\ jwrite # <<>> =>
            SubSeq(jfile'.words, 1, Len(jfile.words)) = jfile.words]_vars
    /\ []((jpc = "writing" /\ jwrite # <<>> /\ \A t \in Writers : jwrite[t] = NoIov) =>
            /\ (jfile.size - jfile.journalOffset) % HashRecordSize = 0
            /\ Len(RegionRecords(jfile)) = Len(jrecs)
            /\ \A r \in JournalRecords :
                  Count(RegionRecords(jfile), RecordWords(r)) = Count(jrecs, r))

\* The sequence s from its last element to its first.
Reverse(s) == [i \in 1 .. Len(s) |-> s[Len(s) + 1 - i]]

StartsWithMagic(file) == file.size >= 8 /\ file.magic = JournalMagic

\* The journalOffset field of the file's header (zero where the file ends
\* before the field).
HeaderJournalOffset(file) ==
    IF file.size >= 16 THEN file.journalOffset ELSE U64(0)

\* C15: Journal(path) throws, and no handle exists, exactly when the file
\* does not exist, or its first 8 bytes are not the magic, or the header's
\* journalOffset is greater than the file size or than the largest signed
\* file offset; in every other case the handle exists.
C15_OpenFailsOnBadHeader ==
    (jpc \in {"opened", "threw"} /\ jread.ctor = "open") =>
        /\ jpc = "threw" <=>
              \/ ~jfile.exists
              \/ ~StartsWithMagic(jfile)
              \/ U64Less(U64(jfile.size), HeaderJournalOffset(jfile))
              \/ U64Less(OffMax, HeaderJournalOffset(jfile))
        /\ jpc = "opened" <=> jread.result = "ok"

\* An open has thrown on a file with the right magic whose journalOffset is
\* one more than its size.
C15_Witness ==
    /\ jpc = "threw"
    /\ jread.ctor = "open"
    /\ jfile.exists
    /\ StartsWithMagic(jfile)
    /\ jfile.journalOffset = U64(jfile.size + 1)

\* C16: Journal(path, info) at a path where a file exists leaves a journal
\* handle on a file that holds the new header only: hashCount() is 0 and
\* fileInfo() is the list given.
C16_CreateTruncatesExisting ==
    [][(jpc = "none" /\ jfile.exists /\ jpc' # "none"
          /\ (jpc' = "writing" \/ jread'.ctor = "create"))
        => /\ jpc' = "writing"
           /\ hashCount(jfile') = 0
           /\ fileInfo(jfile') = jinfo']_vars

\* The cursor was last set by a seek relative to `whence` on a journal
\* that held records.
Sought(whence) ==
    /\ jread # <<>>
    /\ "last" \in DOMAIN jread
    /\ jread.last.op \in {"seek", "+=", "-="}
    /\ jread.last.whence = whence

\* C17: after seek(count, Set) on a journal with N >= 1 records the cursor
\* is valid iff 0 <= count < N, and then its position is count; for
\* count < 0 and for count >= N, count = N included, it is invalid and its
\* position is ~0.
C17_SeekSet ==
    (Sought("Set") /\ jread.last.n >= 1) =>
        LET count == jread.last.count
            N == jread.last.n
        IN  /\ CursorValid(jread.idx, N) <=> (0 <= count /\ count < N)
            /\ CursorValid(jread.idx, N) => jread.idx = count
            /\ (count < 0 \/ count >= N) => jread.idx = NoPosition

\* C18: after seek(count, Current) on a journal with N records: from a
\* valid position p the position is p + count when 0 <= p + count < N and
\* the cursor is invalid otherwise; from an invalid position with
\* count < 0 the position is N - |count| when |count| <= N and the cursor
\* is invalid otherwise; from an invalid position with count >= 0 the
\* cursor is invalid.
C18_SeekCurrent ==
    Sought("Current") =>
        LET count == jread.last.count
            N == jread.last.n
            p == jread.last.from
        IN  IF CursorValid(p, N)
              THEN IF 0 <= p + count /\ p + count < N
                     THEN jread.idx = p + count
                     ELSE ~CursorValid(jread.idx, N)
            ELSE IF count < 0 /\ Abs(count) <= N
              THEN jread.idx = N - Abs(count)
            ELSE ~CursorValid(jread.idx, N)

\* C20: on a journal with N >= 1 records, a cursor that a seek relative to
\* its current position or to the end, or an iterator += or -=, has left
\* invalid has position ~0 exactly, whatever position it started from.
\* (Seeks relative to Set are what C17 is about.)
C20_InvalidIsSentinel ==
    ((Sought("Current") \/ Sought("End")) /\ jread.last.n >= 1) =>
        (~CursorValid(jread.idx, jread.last.n) => jread.idx = NoPosition)

\* A cursor exists and jread holds it.
HasCursor == jread # <<>> /\ "idx" \in DOMAIN jread

\* The record count the cursor sees in file.
CursorCount(file) == journalRecordCount(file, jread.hashOffset)

\* C21: a writeHash append leaves an invalid cursor invalid, and its
\* hashRecord() returns nothing afterwards as before; a valid cursor's
\* hashRecord() returns the record appended at its index; and a seek on a
\* journal without records leaves the cursor invalid.
C21_InvalidUntilSeek ==
    /\ [][(HasCursor /\ jread' = jread /\ jfile' # jfile
            /\ ~CursorValid(jread.idx, CursorCount(jfile)))
          => /\ hashRecord(jfile, jread.hashOffset, jread.idx) = Nothing
             /\ ~CursorValid(jread.idx, CursorCount(jfile'))
             /\ hashRecord(jfile', jread.hashOffset, jread.idx) = Nothing]_vars
    /\ []((HasCursor /\ CursorValid(jread.idx, CursorCount(jfile)))
            => hashRecord(jfile, jread.hashOffset, jread.idx) = jrecs[jread.idx + 1])
    /\ [][(HasCursor /\ jfile' = jfile /\ jread' # jread /\ CursorCount(jfile) = 0)
          => ~CursorValid(jread'.idx, CursorCount(jfile'))]_vars

(***************************************************************************)
(* Sender (src/src/util/Sender.cc), writeChunk (src/src/util/Util.cc)      *)
(*                                                                         *)
(* The socket's stream is kept as runs of bytes: bytes lo..hi of a chunk   *)
(* header, or bytes lo..hi of a buffer.  Consecutive bytes of the same     *)
(* object join into one run, as they do in a byte stream.                  *)
(***************************************************************************)
MaxDescs == 2
ChunkHeaderSize == 4096

\* ChunkHeader::Magic, 0x55aa'aa55'da7a'0000, as its four 16-bit groups.
Magic == <<21930, 43605, 55930, 0>>

\* magic & MagicMask
MagicMasked(m) == [m EXCEPT ![4] = 0]

\* The descriptors a Reader hands over: the file id is a FileInfo::id.
Descs ==
    {[buf |-> b, fileId |-> f, offset |-> o, len |-> l] :
        b \in {"buf0", "buf1"}, f \in {1, 65535}, o \in {8192},
        l \in {0, 100, 4096}}

\* XXH3_64bits(data, len): equal over equal bytes only.
XXH3(data, len) == [xxh3 |-> data, len |-> len]

\* The header Sender::write builds; every other member is zero.
BuildHeader(desc) ==
    [magic |-> Magic, fileOffset |-> desc.offset, payloadLength |-> desc.len,
     fileId |-> desc.fileId % 65536, flags |-> 0, pad0 |-> 0, pad_align |-> 0]

\* iovec iov[2]: base is the object and the offset reached inside it.
BuildIov(desc) ==
    <<[obj |-> [kind |-> "header", hdr |-> BuildHeader(desc)],
       base |-> 0, len |-> ChunkHeaderSize],
      [obj |-> [kind |-> "payload", buf |-> desc.buf],
       base |-> 0, len |-> desc.len]>>

RECURSIVE IovBytes(_)
IovBytes(iov) ==
    IF iov = <<>> THEN 0 ELSE Head(iov).len + IovBytes(Tail(iov))

\* The places inside a frame, in bytes from its start, at which the socket
\* may stop accepting in one writev: inside the header's fields, inside its
\* padding, at its end, and inside the payload.
CutPoints == {1, 24, 4095, 4096, 4097}

\* The lengths writev may return for iov, which belongs to a frame of
\* frameBytes bytes: up to a cut point ahead, or all that is left.
WritevLens(iov, frameBytes) ==
    LET left == IovBytes(iov)
        sent == frameBytes - left
    IN  {c - sent : c \in {x \in CutPoints : x > sent /\ x < frameBytes}}
            \cup {left}

\* The stream after n more bytes of obj, starting at its byte lo.
StreamAppend(stream, obj, lo, n) ==
    IF n = 0 THEN stream
    ELSE IF /\ stream # <<>>
            /\ stream[Len(stream)].obj = obj
            /\ stream[Len(stream)].hi + 1 = lo
           THEN [stream EXCEPT ![Len(stream)].hi = lo + n - 1]
    ELSE Append(stream, [obj |-> obj, lo |-> lo, hi |-> lo + n - 1])

\* What writev puts on the socket when it accepts ulen bytes of iov.
RECURSIVE Gather(_, _, _)
Gather(stream, iov, ulen) ==
    IF ulen = 0 \/ iov = <<>> THEN stream
    ELSE LET adv == Min(Head(iov).len, ulen)
         IN  Gather(StreamAppend(stream, Head(iov).obj, Head(iov).base, adv),
                    Tail(iov), ulen - adv)

\* An advance that drops finished entries but never moves iov_base.
RECURSIVE AdvanceNoBase(_, _)
AdvanceNoBase(iov, ulen) ==
    IF ulen = 0 \/ iov = <<>> THEN iov
    ELSE LET adv == Min(Head(iov).len, ulen)
         IN  IF Head(iov).len = adv
               THEN AdvanceNoBase(Tail(iov), ulen - adv)
               ELSE <<[Head(iov) EXCEPT !.len = @ - adv]>> \o Tail(iov)

\* writeChunk's inner loop: iov after ulen bytes were accepted.
RECURSIVE Advance(_, _)
Advance(iov, ulen) ==
    IF ulen = 0 \/ iov = <<>> THEN iov
    ELSE LET adv == Min(Head(iov).len, ulen)
         IN  IF Head(iov).len = adv
               THEN Advance(Tail(iov), ulen - adv)
               ELSE <<[Head(iov) EXCEPT !.base = @ + adv, !.len = @ - adv]>>
                    \o Tail(iov)

SenderInit ==
    /\ IdleExcept("sender")
    /\ squeue = <<>>
    /\ sdesc = <<>>
    /\ siov = <<>>
    /\ sock = <<>>
    /\ hashLog_ \in {[set |-> on, records |-> <<>>] : on \in BOOLEAN}
    /\ spc = "get"

\* A Reader puts a descriptor into the Sender's queue.
SenderQueuePut(desc) ==
    /\ UnchangedExcept("sender")
    /\ Len(sdesc) + Len(squeue) < MaxDescs
    /\ squeue' = Append(squeue, desc)
    /\ UNCHANGED <<sdesc, siov, sock, hashLog_, spc>>

\* Sender::runOnce dequeues a descriptor and Sender::write runs up to the
\* call of writeChunk: the header and iov are built and, with a hash log,
\* the digest of the desc.len payload bytes is written to it.
SenderWrite ==
    /\ UnchangedExcept("sender")
    /\ spc = "get"
    /\ squeue # <<>>
    /\ LET desc == Head(squeue)
       IN  /\ sdesc' = Append(sdesc, desc)
           /\ siov' = BuildIov(desc)
           /\ hashLog_' =
                IF hashLog_.set
                  THEN [hashLog_ EXCEPT !.records = Append(@,
                        HashRecordOf(desc.fileId, desc.offset, desc.len,
                                     XXH3(desc.buf, desc.len)))]
                  ELSE hashLog_
    /\ squeue' = Tail(squeue)
    /\ spc' = "write"
    /\ UNCHANGED sock

\* One writev of writeChunk that accepts some of the bytes, and the inner loop that
\* advances iov; writeChunk returns when iovCount reaches 0.
SenderWritev ==
    /\ UnchangedExcept("sender")
    /\ spc = "write"
    /\ IovBytes(siov) > 0
    /\ \E n \in WritevLens(siov, ChunkHeaderSize + sdesc[Len(sdesc)].len) :
        /\ sock' = Gather(sock, siov, n)
        /\ siov' = Advance(siov, n)
        /\ spc' = IF Advance(siov, n) = <<>> THEN "get" ELSE "write"
    /\ UNCHANGED <<squeue, sdesc, hashLog_>>

\* writev has nothing left to send (an empty payload entry remains) and
\* returns 0: writeChunk breaks out of its loop.
SenderWritevZero ==
    /\ UnchangedExcept("sender")
    /\ spc = "write"
    /\ siov # <<>>
    /\ IovBytes(siov) = 0
    /\ siov' = <<>>
    /\ spc' = "get"
    /\ UNCHANGED <<squeue, sdesc, sock, hashLog_>>

SenderNext ==
    \/ \E desc \in Descs : SenderQueuePut(desc)
    \/ SenderWrite
    \/ SenderWritev
    \/ SenderWritevZero

SpecSender == SenderInit /\ [][SenderNext]_vars

(***************************************************************************)
(* Sender: properties                                                      *)
(***************************************************************************)
Payload(buf, len) == IF len = 0 THEN <<>> ELSE <<buf, len>>

\* The stream read as frames: a whole header, then as many payload bytes
\* as its payloadLength says.
RECURSIVE ParseFrames(_)
ParseFrames(stream) ==
    IF stream = <<>> THEN <<>>
    ELSE LET h == stream[1]
         IN  IF h.obj.kind # "header" \/ h.lo # 0 \/ h.hi # ChunkHeaderSize - 1
               THEN <<[bad |-> "header"]>>
             ELSE IF h.obj.hdr.payloadLength = 0
               THEN <<[header |-> h.obj.hdr, payload |-> <<>>]>>
                    \o ParseFrames(Tail(stream))
             ELSE IF Len(stream) < 2 THEN <<[bad |-> "no payload"]>>
             ELSE LET p == stream[2]
                  IN  IF p.obj.kind # "payload" \/ p.lo # 0
                            \/ p.hi # h.obj.hdr.payloadLength - 1
                        THEN <<[bad |-> "payload"]>>
                        ELSE <<[header |-> h.obj.hdr,
                                payload |-> Payload(p.obj.buf, p.hi + 1)]>>
                             \o ParseFrames(Tail(Tail(stream)))

\* The frame a descriptor has to appear as.
FrameOf(desc) ==
    [header |-> [magic |-> <<21930, 43605, 55930, 0>>,
                 fileOffset |-> desc.offset, payloadLength |-> desc.len,
                 fileId |-> desc.fileId, flags |-> 0, pad0 |-> 0,
                 pad_align |-> 0],
     payload |-> Payload(desc.buf, desc.len)]

\* C2: the socket's stream, once the write in progress (if any) has sent
\* what is left of its iov, parses as exactly one frame per dequeued
\* descriptor, in order: a 4096-byte header with the magic, fileOffset =
\* desc.offset, payloadLength = desc.len, fileId = desc.fileId and zero
\* flags and padding, followed by the first desc.len bytes of the buffer;
\* every header's magic & ~0xFFFF is the constant; and between writes
\* nothing is left to send.
C2_SenderFraming ==
    LET frames == ParseFrames(Gather(sock, siov, IovBytes(siov)))
    IN  /\ frames = [i \in DOMAIN sdesc |-> FrameOf(sdesc[i])]
        /\ \A i \in DOMAIN frames :
                MagicMasked(frames[i].header.magic) = <<21930, 43605, 55930, 0>>
        /\ spc = "get" => siov = <<>>

\* The second descriptor's frame is on its way: its header went out, and
\* its payload was accepted only in part.
C2_Witness ==
    /\ spc = "write"
    /\ Len(sdesc) = MaxDescs
    /\ Len(siov) = 1
    /\ siov[1].base > 0
    /\ siov[1].len > 0

(***************************************************************************)
(* The transfer and verify pipelines: Reader, Sender, Receiver, Writer and *)
(* Hasher, run by TxSession, RxSession and VerifySession on the threads of *)
(* ThreadExecutor and TaskPool.                                            *)
(*                                                                         *)
(* Time is abstracted: a timed wait may time out whenever what it waits    *)
(* for has not happened.  File contents are kept by provenance: a run of   *)
(* bytes is named by the sender file and the offset it was read from.      *)
(* The sizes are scaled down: a buffer holds BufBlocks blocks where the    *)
(* program's holds 1024, and a pool holds PoolBuffers buffers where the    *)
(* program's holds 35.                                                     *)
(***************************************************************************)
MaxFiles == 2

MaxChunks == 2

NumChannels == 2

BufBlocks == 2

PoolBuffers == 1

BlockSize == 4096

QueueSizeLimit == 100

ReadQueueSizeLimit == 10

NumHashers == 2

BufSize == BufBlocks * BlockSize

Max(a, b) == IF a >= b THEN a ELSE b

roundBlockSize(len) == ((len + BlockSize - 1) \div BlockSize) * BlockSize

Channels == 1 .. NumChannels

Hashers == 1 .. NumHashers

\* The directory entries a source path may hold: directories, and regular
\* files that are empty, shorter than a block, or longer than a buffer.
Entries ==
    {[mode |-> "dir", size |-> 0]} \cup
    {[mode |-> "reg", size |-> s] : s \in {0, 100, BufSize + 100}}

\* The buffers it takes to read size bytes.
BufferCount(size) == (size + BufSize - 1) \div BufSize

RECURSIVE TreeBuffers(_)
TreeBuffers(entries) ==
    IF entries = <<>> THEN 0
    ELSE BufferCount(Head(entries).size) + TreeBuffers(Tail(entries))

\* The source trees: up to MaxFiles entries that take up to MaxChunks
\* buffers to read.
Trees ==
    {t \in UNION {[1 .. n -> Entries] : n \in 1 .. MaxFiles} :
        TreeBuffers(t) <= MaxChunks}

\* getFileInfo: the walk gives every entry that is not a directory the next
\* value of the counter, stored in the 16-bit FileInfo::id.
RECURSIVE getFileInfoFrom(_, _)
getFileInfoFrom(entries, fileId) ==
    IF entries = <<>> THEN <<>>
    ELSE LET e == Head(entries)
             next == IF e.mode = "dir" THEN fileId ELSE fileId + 1
         IN  <<[id |-> IF e.mode = "dir" THEN 0 ELSE next % 65536,
                mode |-> e.mode, size |-> e.size]>>
             \o getFileInfoFrom(Tail(entries), next)

getFileInfo(entries) == getFileInfoFrom(entries, 0)

\* A nextFile that skips nothing.
nextFileNoSkip(info, first) == first

\* TxSession::nextFile, VerifySession::nextFile, on indexes into the list.
RECURSIVE nextFile(_, _)
nextFile(info, first) ==
    IF first <= Len(info)
        /\ (info[first].mode # "reg" \/ info[first].size = 0)
      THEN nextFile(info, first + 1)
      ELSE first

\* What a buffer holds: the first len bytes are the bytes of sender file
\* `file` from `offset` on, the rest is whatever the memory held before.
NoData == [file |-> 0, offset |-> 0, len |-> 0]

\* A BufferPool::Buffer of pool `pool`, and the empty handle.
PoolBuffer(pool, data) == [size |-> BufSize, pool |-> pool, data |-> data]

EmptyHandle == [size |-> 0, pool |-> "none", data |-> NoData]

\* BufferPool::get(deadline): a buffer when one is free; the empty handle
\* when the deadline passes with none free.
BufferPoolGetDeadline(pool, free) ==
    IF free > 0 THEN PoolBuffer(pool, NoData) ELSE EmptyHandle

BDesc(buf, fileId, offset, len) ==
    [buf |-> buf, fileId |-> fileId, offset |-> offset, len |-> len]

NoDesc == BDesc(EmptyHandle, 0, 0, 0)

\* The first n bytes of a buffer: data bytes, then stale bytes.
Bytes(buf, n) ==
    [file |-> buf.data.file, offset |-> buf.data.offset,
     len |-> Min(n, buf.data.len), stale |-> n - Min(n, buf.data.len)]

\* readChunk on a file of fileSize bytes: preads until dlen bytes are read
\* or the end of the file is reached.
readChunk(fileSize, dlen, fileOffset) ==
    Min(dlen, Max(0, fileSize - fileOffset))

\* The Reader after a turn of its loop that moved on without the block.
ReaderAdvanceSameOffset(r) == [r EXCEPT !.desc = NoDesc, !.pc = "get"]

\* A Reader as TxSession::startFile ("tx": queue_ set) and
\* VerifySession::startFile ("verify": queue_ null, hashQueue_ set) make it.
Reader(fileId, offset, len, session) ==
    [fileId |-> fileId, offset |-> offset, len |-> len,
     queue |-> session = "tx", hashQueue |-> session = "verify",
     pc |-> "get", desc |-> NoDesc, tried |-> FALSE]

\* Reader::read: the length asked of readChunk, and what it returns.  The
\* file is as long as the segment.
ReaderRead(r, buf) ==
    readChunk(r.len, Min(roundBlockSize(r.len - r.offset), buf.size), r.offset)

\* The end of one turn of the Reader's loop.
ReaderAdvance(r) ==
    [r EXCEPT !.offset = @ + r.desc.len, !.desc = NoDesc, !.pc = "get"]

\* A block of a receiver file: its first n bytes are the bytes of block
\* `block` of sender file `file`; a Hole holds none of the sender's bytes.
Hole == [file |-> 0, block |-> 0, n |-> 0]

\* Block j of a buffer, as a file block.
BufferBlock(buf, j) ==
    [file |-> buf.data.file,
     block |-> buf.data.offset \div BlockSize + j,
     n |-> Max(0, Min(BlockSize, buf.data.len - j * BlockSize))]

BlockCount(size) == roundBlockSize(size) \div BlockSize

\* createTargetFiles and RxSession::createFiles: every regular entry gets a
\* file allocated to its announced size and a place in the id -> fd map.
createFiles(info) ==
    LET regular == {i \in DOMAIN info : info[i].mode = "reg"}
    IN  [id \in {info[i].id : i \in regular} |->
            LET i == CHOOSE j \in regular : info[j].id = id
            IN  [size |-> info[i].size,
                 blocks |-> [b \in 1 .. BlockCount(info[i].size) |-> Hole]]]

\* writeChunk(fd, iov, 1, offset): n bytes of the buffer written at a block
\* aligned offset; the file grows when the write ends beyond its end.
writeChunk(file, buf, n, offset) ==
    LET first == offset \div BlockSize
        count == n \div BlockSize
    IN  [size |-> Max(file.size, offset + n),
         blocks |->
            [b \in 1 .. Max(Len(file.blocks), first + count) |->
                IF b - 1 >= first /\ b - 1 < first + count
                  THEN BufferBlock(buf, b - 1 - first)
                  ELSE IF b <= Len(file.blocks) THEN file.blocks[b] ELSE Hole]]

\* Writer::write: nothing for an unmapped id; else roundBlockSize(desc.len)
\* bytes of the buffer at desc.offset.
WriterWrite(fs, desc) ==
    IF desc.fileId \notin DOMAIN fs THEN fs
    ELSE [fs EXCEPT ![desc.fileId] =
            writeChunk(@, desc.buf, roundBlockSize(desc.len), desc.offset)]

\* ftruncate(fd, sz).
ftruncate(file, sz) ==
    [size |-> sz,
     blocks |-> [b \in 1 .. BlockCount(sz) |->
                    IF b <= Len(file.blocks) THEN file.blocks[b] ELSE Hole]]

\* RxSession::truncateFiles: every regular file that was opened is cut to
\* its announced size.
truncateFiles(fs, info) ==
    [id \in DOMAIN fs |->
        LET i == CHOOSE j \in DOMAIN info :
                    info[j].mode = "reg" /\ info[j].id = id
        IN  ftruncate(fs[id], info[i].size)]

\* A frame on a data connection: the header Sender::write builds and the
\* payload bytes.
Frame(desc) == [hdr |-> BuildHeader(desc), payload |-> Bytes(desc.buf, desc.len)]

\* The descriptor Receiver::waitData enqueues for a frame read into buf.
ReceivedDesc(frame, pool) ==
    BDesc(PoolBuffer(pool, [file |-> frame.payload.file,
                            offset |-> frame.payload.offset,
                            len |-> frame.payload.len]),
          frame.hdr.fileId, frame.hdr.fileOffset, frame.hdr.payloadLength)

\* A thread that ends where its loop ends, with no runOnce after it.
ThreadExitNoFinalize(phase, stopRequested, doFinalize) == "finished"

\* The thread of ThreadExecutor::Runnable_ when it leaves runOnce with stop
\* requested or with runOnce having returned false: from the while loop it
\* goes to the runOnce of DoFinalize when stop was requested and the flag is
\* set; otherwise, and after that runOnce, it is finished.
ThreadExit(phase, stopRequested, doFinalize) ==
    IF phase = "loop" /\ stopRequested /\ doFinalize THEN "final" ELSE "finished"

Running(phase) == phase \in {"loop", "final"}

\* A thread that ends at the test of its loop once stop was requested.
LoopTestNoFinalize(stopRequested, doFinalize) ==
    IF stopRequested THEN "finished" ELSE "loop"

\* The thread at `while (!token.stop_requested())` between two calls of
\* runOnce ("top"): into runOnce, or out of the loop when stop was requested.
LoopTest(stopRequested, doFinalize) ==
    IF stopRequested THEN ThreadExit("loop", TRUE, doFinalize) ELSE "loop"

\* The thread when a runOnce that returns !stop_requested() returns: true
\* in the loop takes it back to the loop's test.
RunOnceReturns(phase, stopRequested, doFinalize) ==
    IF phase = "loop" /\ ~stopRequested THEN "top"
    ELSE ThreadExit(phase, stopRequested, doFinalize)

\* std::erase_if of the futures that were ready and have been got.
CollectReady(results) == SelectSeq(results, LAMBDA r : ~r.ready)

\* TaskPool::launch: the put on the task queue fails when the queue holds
\* its limit of waiting tasks; the first task of exec is the running one.
LaunchOk(exec) == Max(Len(exec) - 1, 0) < ReadQueueSizeLimit

\* The loop `while (fileIter_ != end(info_) && startFile(*fileIter_))`.
RECURSIVE SubmitFiles(_, _, _, _, _)
SubmitFiles(info, iter, exec, results, session) ==
    IF iter > Len(info) \/ ~LaunchOk(exec)
      THEN [iter |-> iter, exec |-> exec, results |-> results]
      ELSE SubmitFiles(info, nextFile(info, iter + 1),
                Append(exec, Reader(info[iter].id, 0, info[iter].size, session)),
                Append(results, [fileId |-> info[iter].id, ready |-> FALSE]),
                session)

\* The descriptor a Reader builds for the len bytes it read into buf.
ReadDesc(r, len, buf) ==
    BDesc([buf EXCEPT !.data = [file |-> r.fileId, offset |-> r.offset, len |-> len]],
          r.fileId, r.offset, len)

\* XXH3_64bits as Sender::write calls it: over the desc.len payload bytes.
SenderDigest(desc) == XXH3(Bytes(desc.buf, desc.len), desc.len)

\* Hasher::hash: XXH3_64bits over buf->size() bytes of the buffer.
HasherHash(desc) == XXH3(Bytes(desc.buf, desc.buf.size), desc.buf.size)

\* After TxSession::start and RxSession::start: the request has announced
\* info_, the target files exist, every data channel is connected.
TransferInit ==
    /\ IdleExcept("xfer")
    /\ info_ \in {getFileInfo(t) : t \in Trees}
    /\ fileIter_ = nextFile(info_, 1)
    /\ readExec_ = <<>>
    /\ readResults_ = <<>>
    /\ pool_ = PoolBuffers
    /\ queue_ = <<>>
    /\ hashQueue_ = <<>>
    /\ sendExec_ = [c \in Channels |-> "top"]
    /\ stops = {}
    /\ socks = [c \in Channels |->
                    [frames |-> <<>>, closed |-> FALSE, tried |-> FALSE]]
    /\ recvExec_ = [c \in Channels |-> "loop"]
    /\ rxPools = [c \in Channels |-> PoolBuffers]
    /\ rxQueue_ = <<>>
    /\ writeExec_ = "top"
    /\ files = createFiles(info_)
    /\ hashExec_ = <<>>
    /\ journal_ = <<>>
    /\ runPc = "tx"
    /\ rxPc = "run"

\* Reader::operator(), from the top of the loop to the read: the pool
\* acquisition with its 20 ms deadline, read(), and `if (!len) return 0`,
\* which ends the task and makes its future ready.  `if (!buf)` tests the
\* shared_ptr that make_shared returned, which is never null.
ReaderGet ==
    /\ UnchangedExcept("xfer")
    /\ readExec_ # <<>>
    /\ Head(readExec_).pc = "get"
    /\ LET r == Head(readExec_)
           buf == BufferPoolGetDeadline("session", pool_)
           len == ReaderRead(r, buf)
       IN  IF len = 0
             THEN /\ readExec_' = Tail(readExec_)
                  /\ readResults_' =
                        [i \in DOMAIN readResults_ |->
                            IF readResults_[i].fileId = r.fileId
                              THEN [readResults_[i] EXCEPT !.ready = TRUE]
                              ELSE readResults_[i]]
                  /\ UNCHANGED pool_
             ELSE /\ readExec_' =
                        <<[r EXCEPT !.desc = ReadDesc(r, len, buf),
                                    !.pc = IF r.queue THEN "put" ELSE "hash"]>>
                        \o Tail(readExec_)
                  /\ pool_' = pool_ - 1
                  /\ UNCHANGED readResults_
    /\ UNCHANGED <<info_, fileIter_, queue_, hashQueue_, sendExec_, stops, socks,
                   recvExec_, rxPools, rxQueue_, writeExec_, files, hashExec_,
                   journal_, runPc, rxPc>>

\* A put on the primary queue that returns false, the queue being full or
\* its mutex not acquired within the 100 ms: the loop goes round.  `tried`
\* records that a put of this Reader has failed.
ReaderPutFails ==
    /\ UnchangedExcept("xfer")
    /\ readExec_ # <<>>
    /\ Head(readExec_).pc = "put"
    /\ ~Head(readExec_).tried
    /\ readExec_' = <<[Head(readExec_) EXCEPT !.tried = TRUE]>> \o Tail(readExec_)
    /\ UNCHANGED <<info_, fileIter_, readResults_, pool_, queue_, hashQueue_,
                   sendExec_, stops, socks, recvExec_, rxPools, rxQueue_,
                   writeExec_, files, hashExec_, journal_, runPc, rxPc>>

\* The put on the primary queue that returns true; then, with no hash
\* queue, the end of the turn.
ReaderPut ==
    /\ UnchangedExcept("xfer")
    /\ readExec_ # <<>>
    /\ Head(readExec_).pc = "put"
    /\ Len(queue_) < QueueSizeLimit
    /\ LET r == Head(readExec_)
       IN  /\ queue_' = Append(queue_, r.desc)
           /\ readExec_' =
                <<IF r.hashQueue THEN [r EXCEPT !.pc = "hash"] ELSE ReaderAdvance(r)>>
                \o Tail(readExec_)
    /\ UNCHANGED <<info_, fileIter_, readResults_, pool_, hashQueue_, sendExec_,
                   stops, socks, recvExec_, rxPools, rxQueue_, writeExec_, files,
                   hashExec_, journal_, runPc, rxPc>>

\* TxSession::runOnce.
TxRunOnce ==
    /\ UnchangedExcept("xfer")
    /\ runPc = "tx"
    /\ LET sub == SubmitFiles(info_, fileIter_, readExec_,
                              CollectReady(readResults_), "tx")
           drained == sub.iter > Len(info_) /\ sub.results = <<>>
       IN  /\ fileIter_' = sub.iter
           /\ readExec_' = sub.exec
           /\ readResults_' = sub.results
           /\ stops' = IF drained THEN stops \cup {"send"} ELSE stops
           /\ runPc' = IF drained /\ \A c \in Channels :
                                        sendExec_[c] = "finished"
                         THEN "done" ELSE "tx"
    /\ UNCHANGED <<info_, pool_, queue_, hashQueue_, sendExec_, socks, recvExec_,
                   rxPools, rxQueue_, writeExec_, files, hashExec_, journal_, rxPc>>

\* Sender::runOnce for one descriptor: the get returns the oldest one, and
\* Sender::write puts its frame on the connection; the descriptor is then
\* destroyed, which returns the buffer to the pool.
SenderRunOnce(c) ==
    /\ UnchangedExcept("xfer")
    /\ Running(sendExec_[c])
    /\ queue_ # <<>>
    /\ socks' = [socks EXCEPT ![c].frames = Append(@, Frame(Head(queue_)))]
    /\ queue_' = Tail(queue_)
    /\ pool_' = pool_ + 1
    /\ UNCHANGED <<info_, fileIter_, readExec_, readResults_, hashQueue_,
                   sendExec_, stops, recvExec_, rxPools, rxQueue_, writeExec_,
                   files, hashExec_, journal_, runPc, rxPc>>

\* The Sender's thread at the test of its loop.
SenderLoopTest(c) ==
    /\ UnchangedExcept("xfer")
    /\ sendExec_[c] = "top"
    /\ sendExec_' = [sendExec_ EXCEPT ![c] = LoopTest("send" \in stops, TRUE)]
    /\ UNCHANGED <<info_, fileIter_, readExec_, readResults_, pool_, queue_,
                   hashQueue_, stops, socks, recvExec_, rxPools, rxQueue_,
                   writeExec_, files, hashExec_, journal_, runPc, rxPc>>

\* Sender::runOnce when the get on the empty queue times out: runOnce
\* returns !stop_requested(); the thread goes back to the test of its
\* loop, on to its final runOnce, or ends, and then the Sender is
\* destroyed, closing its socket.
SenderGetEmpty(c) ==
    /\ UnchangedExcept("xfer")
    /\ Running(sendExec_[c])
    /\ queue_ = <<>>
    /\ LET phase == RunOnceReturns(sendExec_[c], "send" \in stops, TRUE)
       IN  /\ sendExec_' = [sendExec_ EXCEPT ![c] = phase]
           /\ socks' = [socks EXCEPT ![c].closed = (phase = "finished")]
    /\ UNCHANGED <<info_, fileIter_, readExec_, readResults_, pool_, queue_,
                   hashQueue_, stops, recvExec_, rxPools, rxQueue_, writeExec_,
                   files, hashExec_, journal_, runPc, rxPc>>

\* Two Senders in their gets: the get of Sender o holds the queue's mutex
\* beyond the 1 ms deadline of Sender c's get and returns the oldest
\* descriptor, which o sends; the get of c returns empty with descriptors
\* queued, and c's runOnce returns.
SenderGetTimedOut(c, o) ==
    /\ UnchangedExcept("xfer")
    /\ c # o
    /\ Running(sendExec_[c])
    /\ Running(sendExec_[o])
    /\ queue_ # <<>>
    /\ LET phase == RunOnceReturns(sendExec_[c], "send" \in stops, TRUE)
       IN  /\ sendExec_' = [sendExec_ EXCEPT ![c] = phase]
           /\ socks' = [socks EXCEPT ![c].closed = (phase = "finished"),
                                     ![o].frames = Append(@, Frame(Head(queue_)))]
    /\ queue_' = Tail(queue_)
    /\ pool_' = pool_ + 1
    /\ UNCHANGED <<info_, fileIter_, readExec_, readResults_, hashQueue_,
                   stops, recvExec_, rxPools, rxQueue_, writeExec_,
                   files, hashExec_, journal_, runPc, rxPc>>

\* Receiver::waitData over one whole frame: readHeader, which closes the
\* connection on a magic other than Magic and leaves the Receiver waiting
\* for a new connection; else the blocking pool acquisition, read(), and
\* the put on the write queue, which has no size limit.
RecvWaitData(c) ==
    /\ UnchangedExcept("xfer")
    /\ recvExec_[c] = "loop"
    /\ socks[c].frames # <<>>
    /\ LET frame == Head(socks[c].frames)
       IN  IF frame.hdr.magic # Magic
             THEN /\ socks' = [socks EXCEPT ![c] = [frames |-> <<>>, closed |-> TRUE,
                                                    tried |-> FALSE]]
                  /\ recvExec_' = [recvExec_ EXCEPT ![c] = "connect"]
                  /\ UNCHANGED <<rxPools, rxQueue_>>
             ELSE /\ rxPools[c] > 0
                  /\ rxPools' = [rxPools EXCEPT ![c] = @ - 1]
                  /\ rxQueue_' = Append(rxQueue_, ReceivedDesc(frame, c))
                  /\ socks' = [socks EXCEPT ![c].frames = Tail(@)]
                  /\ UNCHANGED recvExec_
    /\ UNCHANGED <<info_, fileIter_, readExec_, readResults_, pool_, queue_,
                   hashQueue_, sendExec_, stops, writeExec_, files, hashExec_,
                   journal_, runPc, rxPc>>

\* Receiver::waitData with a frame read into its buffer and a put on the
\* write queue that returns false, its mutex not acquired within the
\* 100 ms: the loop goes round with the frame.  `tried` records that a put
\* of this Receiver has failed.
RecvPutFails(c) ==
    /\ UnchangedExcept("xfer")
    /\ recvExec_[c] = "loop"
    /\ socks[c].frames # <<>>
    /\ Head(socks[c].frames).hdr.magic = Magic
    /\ rxPools[c] > 0
    /\ ~socks[c].tried
    /\ socks' = [socks EXCEPT ![c].tried = TRUE]
    /\ UNCHANGED <<info_, fileIter_, readExec_, readResults_, pool_, queue_,
                   hashQueue_, sendExec_, stops, recvExec_, rxPools, rxQueue_,
                   writeExec_, files, hashExec_, journal_, runPc, rxPc>>

\* readHeader returns EOF on a connection the sender closed: runOnce
\* returns false and the thread, which has no DoFinalize, ends.
RecvEof(c) ==
    /\ UnchangedExcept("xfer")
    /\ recvExec_[c] = "loop"
    /\ socks[c].frames = <<>>
    /\ socks[c].closed
    /\ recvExec_' = [recvExec_ EXCEPT ![c] = ThreadExit("loop", "recv" \in stops, FALSE)]
    /\ UNCHANGED <<info_, fileIter_, readExec_, readResults_, pool_, queue_,
                   hashQueue_, sendExec_, stops, socks, rxPools, rxQueue_,
                   writeExec_, files, hashExec_, journal_, runPc, rxPc>>

\* Writer::runOnce: a get that returns a descriptor, and the write; the
\* descriptor is destroyed, which returns the buffer to its Receiver's pool.
WriterRunOnce ==
    /\ UnchangedExcept("xfer")
    /\ Running(writeExec_)
    /\ rxQueue_ # <<>>
    /\ LET desc == Head(rxQueue_)
       IN  /\ files' = WriterWrite(files, desc)
           /\ rxPools' = [rxPools EXCEPT ![desc.buf.pool] = @ + 1]
    /\ rxQueue_' = Tail(rxQueue_)
    /\ UNCHANGED <<info_, fileIter_, readExec_, readResults_, pool_, queue_,
                   hashQueue_, sendExec_, stops, socks, recvExec_, writeExec_,
                   hashExec_, journal_, runPc, rxPc>>

\* The Writer's thread at the test of its loop.
WriterLoopTest ==
    /\ UnchangedExcept("xfer")
    /\ writeExec_ = "top"
    /\ writeExec_' = LoopTest("write" \in stops, TRUE)
    /\ UNCHANGED <<info_, fileIter_, readExec_, readResults_, pool_, queue_,
                   hashQueue_, sendExec_, stops, socks, recvExec_, rxPools,
                   rxQueue_, files, hashExec_, journal_, runPc, rxPc>>

\* Writer::runOnce when the get on the empty queue times out: runOnce
\* returns !stop_requested(); the thread goes back to the test of its
\* loop, on to its final runOnce, or ends.
WriterGetEmpty ==
    /\ UnchangedExcept("xfer")
    /\ Running(writeExec_)
    /\ rxQueue_ = <<>>
    /\ writeExec_' = RunOnceReturns(writeExec_, "write" \in stops, TRUE)
    /\ UNCHANGED <<info_, fileIter_, readExec_, readResults_, pool_, queue_,
                   hashQueue_, sendExec_, stops, socks, recvExec_, rxPools,
                   rxQueue_, files, hashExec_, journal_, runPc, rxPc>>

\* RxSession::runOnce returning false: every Receiver has finished.
RxRunOnce ==
    /\ UnchangedExcept("xfer")
    /\ rxPc = "run"
    /\ \A c \in Channels : recvExec_[c] = "finished"
    /\ rxPc' = "finish"
    /\ UNCHANGED <<info_, fileIter_, readExec_, readResults_, pool_, queue_,
                   hashQueue_, sendExec_, stops, socks, recvExec_, rxPools,
                   rxQueue_, writeExec_, files, hashExec_, journal_, runPc>>

\* RxSession::finish up to waitFinished: both executors are cancelled.
RxFinish ==
    /\ UnchangedExcept("xfer")
    /\ rxPc = "finish"
    /\ stops' = stops \cup {"recv", "write"}
    /\ rxPc' = "wait"
    /\ UNCHANGED <<info_, fileIter_, readExec_, readResults_, pool_, queue_,
                   hashQueue_, sendExec_, socks, recvExec_, rxPools, rxQueue_,
                   writeExec_, files, hashExec_, journal_, runPc>>

\* RxSession::finish from the return of waitFinished, which joins the
\* Writer thread: truncateFiles.
RxTruncate ==
    /\ UnchangedExcept("xfer")
    /\ rxPc = "wait"
    /\ writeExec_ = "finished"
    /\ files' = truncateFiles(files, info_)
    /\ rxPc' = "done"
    /\ UNCHANGED <<info_, fileIter_, readExec_, readResults_, pool_, queue_,
                   hashQueue_, sendExec_, stops, socks, recvExec_, rxPools,
                   rxQueue_, writeExec_, hashExec_, journal_, runPc>>

TransferNext ==
    \/ ReaderGet
    \/ ReaderPutFails
    \/ ReaderPut
    \/ TxRunOnce
    \/ \E c \in Channels : SenderLoopTest(c)
    \/ \E c \in Channels : SenderRunOnce(c)
    \/ \E c \in Channels : SenderGetEmpty(c)
    \/ \E c, o \in Channels : SenderGetTimedOut(c, o)
    \/ \E c \in Channels : RecvPutFails(c)
    \/ \E c \in Channels : RecvWaitData(c)
    \/ \E c \in Channels : RecvEof(c)
    \/ WriterLoopTest
    \/ WriterRunOnce
    \/ WriterGetEmpty
    \/ RxRunOnce
    \/ RxFinish
    \/ RxTruncate

SpecTransfer == TransferInit /\ [][TransferNext]_vars

\* The receiver's file for entry i holds the sender's bytes 0 .. size-1.
FileArrived(i) ==
    LET f == files[info_[i].id]
    IN  /\ f.size = info_[i].size
        /\ \A b \in 1 .. BlockCount(info_[i].size) :
              /\ f.blocks[b].file = info_[i].id
              /\ f.blocks[b].block = b - 1
              /\ f.blocks[b].n >= Min(BlockSize, info_[i].size - (b - 1) * BlockSize)

\* C1: once RxSession::runOnce has returned false and RxSession::finish has
\* run, every regular non-empty file announced in the request has on the
\* receiver its announced size and the sender's bytes.
C1_FilesArrive ==
    rxPc = "done" =>
        \A i \in DOMAIN info_ :
            (info_[i].mode = "reg" /\ info_[i].size > 0) => FileArrived(i)

\* Queue `after` is queue `before`, or that without its oldest element.
Unappended(before, after) ==
    after = before \/ (before # <<>> /\ after = Tail(before))

\* The running Reader, when there is one.
HasReader == readExec_ # <<>>

\* The step in which the running Reader ends.
ReaderEnds == HasReader /\ readExec_' = Tail(readExec_)

\* C27: a pool acquisition of the running Reader that times out, no buffer
\* being free, leaves the Reader where it is, to try again; and a Reader
\* ends only when it has read its whole segment.
C27_PoolTimeoutRetries ==
    [][/\ (HasReader /\ Head(readExec_).pc = "get" /\ pool_ = 0
            /\ Head(readExec_).offset < Head(readExec_).len)
          => /\ readExec_' # <<>>
             /\ Head(readExec_') = Head(readExec_)
             /\ Unappended(queue_, queue_')
       /\ ReaderEnds => Head(readExec_).offset >= Head(readExec_).len]_vars

\* Offsets ascend along the descriptors or frames of each file.
Ascending(s, FileId(_), Offset(_)) ==
    \A i, j \in DOMAIN s :
        (i < j /\ FileId(s[i]) = FileId(s[j])) => Offset(s[i]) < Offset(s[j])

DescFileId(d) == d.fileId

DescOffset(d) == d.offset

FrameFileId(frame) == frame.hdr.fileId

FrameOffset(frame) == frame.hdr.fileOffset

\* C28: the Reader of a file starts at offset 0; every descriptor it
\* enqueues is for its file, starts where the one before ended, is not
\* empty and is a full buffer unless it ends the segment; the Reader ends
\* with its whole segment enqueued; and the frames of a file leave a
\* Sender in ascending order.
C28_ReaderDescriptorsContiguous ==
    /\ [](\A i \in DOMAIN readExec_ :
             /\ (i > 1) => (readExec_[i].offset = 0 /\ readExec_[i].pc = "get")
             /\ (readExec_[i].pc = "put") =>
                   /\ readExec_[i].desc.fileId = readExec_[i].fileId
                   /\ readExec_[i].desc.offset = readExec_[i].offset
                   /\ readExec_[i].desc.len > 0
                   /\ \/ readExec_[i].desc.len = BufSize
                      \/ readExec_[i].offset + readExec_[i].desc.len = readExec_[i].len)
    /\ [](/\ Ascending(queue_, DescFileId, DescOffset)
          /\ \A c \in Channels : Ascending(socks[c].frames, FrameFileId, FrameOffset))
    /\ [][/\ (HasReader /\ Head(readExec_).pc = "put" /\ readExec_' # <<>>
               /\ Head(readExec_').pc # "put")
             => /\ queue_' = Append(queue_, Head(readExec_).desc)
                /\ Head(readExec_').offset =
                       Head(readExec_).offset + Head(readExec_).desc.len
          /\ ReaderEnds => Head(readExec_).offset = Head(readExec_).len]_vars

\* How many times the block at offset x of file f is on its way: on the
\* send queue, in flight on a connection, on the write queue, or written.
Occurrences(s, FileId(_), Offset(_), f, x) ==
    Cardinality({i \in DOMAIN s : FileId(s[i]) = f /\ Offset(s[i]) = x})

RECURSIVE InFlight(_, _, _)
InFlight(c, f, x) ==
    IF c = 0 THEN 0
    ELSE Occurrences(socks[c].frames, FrameFileId, FrameOffset, f, x)
            + InFlight(c - 1, f, x)

Written(f, x) ==
    IF f \in DOMAIN files /\ files[f].blocks[x \div BlockSize + 1].file = f
      THEN 1 ELSE 0

OnItsWay(f, x) ==
    Occurrences(queue_, DescFileId, DescOffset, f, x) + InFlight(NumChannels, f, x)
        + Occurrences(rxQueue_, DescFileId, DescOffset, f, x) + Written(f, x)

\* The offsets of the blocks a Reader reads.
BlockOffsets(r) == {x \in 0 .. r.len - 1 : x % BufSize = 0}

\* C29: a put that fails leaves the Reader, or the Receiver, with the same
\* descriptor and the queue without it, and the put that succeeds appends
\* that descriptor; every block the running Reader has read and moved past
\* is on its way to the file exactly once, on a queue, on a connection or
\* written, and no block it has not moved past is.
C29_PutRetriedUntilEnqueued ==
    /\ []((HasReader /\ Head(readExec_).queue) =>
            \A x \in BlockOffsets(Head(readExec_)) :
                OnItsWay(Head(readExec_).fileId, x)
                    = IF x < Head(readExec_).offset THEN 1 ELSE 0)
    /\ [][/\ (HasReader /\ Head(readExec_).pc = "put") =>
               \/ /\ readExec_' # <<>>
                  /\ Head(readExec_').pc = "put"
                  /\ Head(readExec_').desc = Head(readExec_).desc
                  /\ Unappended(queue_, queue_')
               \/ /\ queue_' = Append(queue_, Head(readExec_).desc)
                  /\ readExec_' = <<ReaderAdvance(Head(readExec_))>> \o Tail(readExec_)
          /\ \A c \in Channels :
               (socks[c].tried # socks'[c].tried) =>
                   /\ socks'[c].frames = socks[c].frames
                   /\ rxQueue_' = rxQueue_
          /\ \A c \in Channels :
               (socks[c].frames # <<>> /\ socks'[c].frames = Tail(socks[c].frames)) =>
                   rxQueue_' = Append(rxQueue_,
                                      ReceivedDesc(Head(socks[c].frames), c))]_vars

\* The running Reader has had a put fail and has moved past that block,
\* and a Receiver has had a put fail and has enqueued that frame.
C29_Witness ==
    /\ HasReader
    /\ Head(readExec_).tried
    /\ Head(readExec_).offset > 0
    /\ \E c \in Channels : socks[c].tried /\ socks[c].frames = <<>> /\ rxQueue_ # <<>>

\* A Receiver appends a descriptor to the write queue.
ReceiverEnqueues ==
    \E c \in Channels :
        /\ socks[c].frames # <<>>
        /\ rxQueue_' = Append(rxQueue_, ReceivedDesc(Head(socks[c].frames), c))

\* The Writer takes the oldest descriptor off the write queue and writes it.
WriterWrites ==
    /\ rxQueue_ # <<>>
    /\ rxQueue_' = Tail(rxQueue_)
    /\ files' = WriterWrite(files, Head(rxQueue_))

SendPoolBuffers == 2

SendInit ==
    /\ IdleExcept("xfer")
    /\ info_ \in {getFileInfo(t) : t \in Trees}
    /\ fileIter_ = nextFile(info_, 1)
    /\ readExec_ = <<>>
    /\ readResults_ = <<>>
    /\ pool_ = SendPoolBuffers
    /\ queue_ = <<>>
    /\ hashQueue_ = <<>>
    /\ sendExec_ = [c \in Channels |-> "top"]
    /\ stops = {}
    /\ socks = [c \in Channels |->
                    [frames |-> <<>>, closed |-> FALSE, tried |-> FALSE]]
    /\ recvExec_ = [c \in Channels |-> "loop"]
    /\ rxPools = [c \in Channels |-> PoolBuffers]
    /\ rxQueue_ = <<>>
    /\ writeExec_ = "top"
    /\ files = createFiles(info_)
    /\ hashExec_ = <<>>
    /\ journal_ = <<>>
    /\ runPc = "tx"
    /\ rxPc = "run"

SendNext ==
    \/ ReaderGet
    \/ ReaderPutFails
    \/ ReaderPut
    \/ TxRunOnce
    \/ \E c \in Channels : SenderLoopTest(c)
    \/ \E c \in Channels : SenderRunOnce(c)
    \/ \E c \in Channels : SenderGetEmpty(c)
    \/ \E c, o \in Channels : SenderGetTimedOut(c, o)

SpecSend == SendInit /\ [][SendNext]_vars

\* The running Reader appends its descriptor to the send queue.
ReaderEnqueues ==
    /\ readExec_ # <<>>
    /\ Head(readExec_).pc = "put"
    /\ queue_' = Append(queue_, Head(readExec_).desc)

\* A Sender takes the oldest descriptor off the send queue and writes its
\* whole frame to its data socket.
SenderSends ==
    /\ queue_ # <<>>
    /\ queue_' = Tail(queue_)
    /\ \E c \in Channels :
          /\ Running(sendExec_[c])
          /\ socks'[c].frames = Append(socks[c].frames, Frame(Head(queue_)))

\* C33: when TxSession::runOnce has returned false, the send queue is empty,
\* no Reader is left and every Sender has ended; and a descriptor leaves
\* the send queue only by a Sender writing its whole frame to its socket:
\* every descriptor the Readers enqueued has been sent.
C33_SendersDrainQueue ==
    /\ [](runPc = "done" =>
            /\ queue_ = <<>>
            /\ readExec_ = <<>>
            /\ \A c \in Channels : sendExec_[c] = "finished")
    /\ [][/\ (queue_' # queue_) => (ReaderEnqueues \/ SenderSends)
          /\ ("send" \in stops) => ~ReaderEnqueues]_vars

\* runOnce has returned false, one Sender having sent every block of the
\* tree and the other none.
C33_Witness ==
    /\ runPc = "done"
    /\ \E c, o \in Channels :
          /\ socks[c].frames = <<>>
          /\ Len(socks[o].frames) = MaxChunks

(***************************************************************************)
(* The submission of Readers by TxSession::runOnce on a file list longer   *)
(* than the read task pool takes at once: one task running and             *)
(* ReadQueueSizeLimit waiting.  The first two entries are a directory, an  *)
(* empty file or a file of 100 bytes; the others are files of 100 bytes.   *)
(* The pool holds the session's 35 buffers, one and more for every block.  *)
(***************************************************************************)
MaxSubmit == 12

SessionPoolBuffers == 35

SubmitTrees ==
    {t \in [1 .. 2 + MaxSubmit ->
                {[mode |-> "dir", size |-> 0]} \cup
                {[mode |-> "reg", size |-> s] : s \in {0, 100}}] :
        \A i \in 3 .. 2 + MaxSubmit : t[i] = [mode |-> "reg", size |-> 100]}

SubmitInit ==
    /\ IdleExcept("xfer")
    /\ info_ \in {getFileInfo(t) : t \in SubmitTrees}
    /\ fileIter_ = nextFile(info_, 1)
    /\ readExec_ = <<>>
    /\ readResults_ = <<>>
    /\ pool_ = SessionPoolBuffers
    /\ queue_ = <<>>
    /\ hashQueue_ = <<>>
    /\ sendExec_ = [c \in Channels |-> "top"]
    /\ stops = {}
    /\ socks = [c \in Channels |->
                    [frames |-> <<>>, closed |-> FALSE, tried |-> FALSE]]
    /\ recvExec_ = [c \in Channels |-> "loop"]
    /\ rxPools = [c \in Channels |-> PoolBuffers]
    /\ rxQueue_ = <<>>
    /\ writeExec_ = "top"
    /\ files = createFiles(info_)
    /\ hashExec_ = <<>>
    /\ journal_ = <<>>
    /\ runPc = "tx"
    /\ rxPc = "run"

\* The Readers run one after the other and the first Sender sends every
\* block; the other Senders only come to their end.
SubmitNext ==
    \/ ReaderGet
    \/ ReaderPut
    \/ TxRunOnce
    \/ SenderRunOnce(1)
    \/ \E c \in Channels : SenderLoopTest(c)
    \/ \E c \in Channels : SenderGetEmpty(c)

SpecSubmit == SubmitInit /\ [][SubmitNext]_vars

\* An entry TxSession reads: a regular file that is not empty.
Eligible(i) == info_[i].mode = "reg" /\ info_[i].size # 0

\* The Readers for the eligible entries from..to-1, in list order.
RECURSIVE ReadersFor(_, _)
ReadersFor(from, to) ==
    IF from >= to THEN <<>>
    ELSE (IF Eligible(from)
            THEN <<Reader(info_[from].id, 0, info_[from].size, "tx")>>
            ELSE <<>>)
         \o ReadersFor(from + 1, to)

\* C35: fileIter_ stands on an eligible entry or at the end and never moves
\* back; a step that moves it appends to the read tasks exactly the Readers
\* {0, size} of the eligible entries it passes, in list order, and no
\* other step adds a read task; a runOnce leaves an entry unsubmitted only
\* when the task queue is full, and the entry is then still the next one;
\* when runOnce has returned false every entry has been passed.
C35_OneReaderPerFile ==
    /\ [](/\ fileIter_ \in 1 .. Len(info_) + 1
          /\ (fileIter_ <= Len(info_)) => Eligible(fileIter_)
          /\ (runPc = "done") => (fileIter_ = Len(info_) + 1))
    /\ [][/\ fileIter_' >= fileIter_
          /\ (fileIter_' # fileIter_) =>
                (readExec_' = readExec_ \o ReadersFor(fileIter_, fileIter_'))
          /\ (fileIter_' = fileIter_) => (Len(readExec_') <= Len(readExec_))
          /\ (TxRunOnce /\ fileIter_' <= Len(info_)) => ~LaunchOk(readExec_')
         ]_vars

\* The Reader of the last entry has been submitted, which the task queue
\* had no room for at the first runOnce.
C35_Witness ==
    /\ Len(info_) = 2 + MaxSubmit
    /\ \E i \in DOMAIN readExec_ :
          readExec_[i].fileId = info_[Len(info_)].id

(***************************************************************************)
(* The Writer on the frames a peer may send.  The Receiver makes a         *)
(* descriptor of every frame whose magic is Magic, whatever file id,       *)
(* offset and length its header names.                                     *)
(***************************************************************************)
MaxInFlight == 2

\* The frames of the peer: a file id of the request or another one, a
\* block-aligned offset, a payload of part of a block or of more than one.
PeerFrames ==
    {Frame(BDesc(PoolBuffer("peer", [file |-> f, offset |-> o, len |-> l]),
                 f, o, l)) :
        f \in 1 .. MaxFiles, o \in {0, BlockSize},
        l \in {100, BlockSize + 100}}

\* The peer writes a frame to the data connection of channel c.
PeerFrame(c) ==
    /\ UnchangedExcept("xfer")
    /\ ~socks[c].closed
    /\ Len(rxQueue_) + Len(socks[c].frames) < MaxInFlight
    /\ \E f \in PeerFrames :
          socks' = [socks EXCEPT ![c].frames = Append(@, f)]
    /\ UNCHANGED <<info_, fileIter_, readExec_, readResults_, pool_, queue_,
                   hashQueue_, sendExec_, stops, recvExec_, rxPools, rxQueue_,
                   writeExec_, files, hashExec_, journal_, runPc, rxPc>>

WriterNext ==
    \/ PeerFrame(1)
    \/ RecvWaitData(1)
    \/ WriterLoopTest
    \/ WriterRunOnce
    \/ WriterGetEmpty

SpecWriter == TransferInit /\ [][WriterNext]_vars

\* The size the request announced for the file with this id.
AnnouncedSize(id) ==
    LET i == CHOOSE j \in DOMAIN info_ :
                info_[j].mode = "reg" /\ info_[j].id = id
    IN  info_[i].size

\* The blocks of a file that hold bytes of [offset, offset + len).
PayloadBlocks(desc) ==
    {b \in 1 .. (desc.offset + roundBlockSize(desc.len)) \div BlockSize :
        (b - 1) * BlockSize >= desc.offset}

\* Block b of the file holds the descriptor's payload bytes that belong
\* there.
HoldsPayload(file, desc, b) ==
    LET j == b - 1 - desc.offset \div BlockSize
    IN  /\ b <= Len(file.blocks)
        /\ file.blocks[b].file = desc.buf.data.file
        /\ file.blocks[b].block = desc.buf.data.offset \div BlockSize + j
        /\ file.blocks[b].n >= Min(BlockSize, desc.len - j * BlockSize)

\* The bytes of block b that hold none of the payload lie at or beyond
\* the announced size.
RestBeyondSize(file, id, b) ==
    (b - 1) * BlockSize + file.blocks[b].n
        >= Min(b * BlockSize, AnnouncedSize(id))

\* The Writer takes the oldest descriptor off the write queue.
WriterDequeues == rxQueue_ # <<>> /\ rxQueue_' = Tail(rxQueue_)

\* C31: when the Writer dequeues a descriptor whose fileId is mapped, the
\* file then holds the payload at [offset, offset + len), every block
\* outside the payload is as before, no byte below the announced size
\* that is not a payload byte was written, and the other files are
\* untouched; a descriptor whose fileId is not mapped changes no file; in
\* both cases the Writer is still running.
C31_WriterWritesPayloadOnly ==
    [][WriterDequeues =>
        LET desc == Head(rxQueue_)
            id == desc.fileId
        IN  /\ writeExec_' = writeExec_
            /\ IF id \in DOMAIN files
                 THEN /\ \A b \in PayloadBlocks(desc) :
                            /\ HoldsPayload(files'[id], desc, b)
                            /\ RestBeyondSize(files'[id], id, b)
                      /\ \A b \in DOMAIN files[id].blocks \ PayloadBlocks(desc) :
                            files'[id].blocks[b] = files[id].blocks[b]
                      /\ \A other \in DOMAIN files \ {id} :
                            files'[other] = files[other]
                 ELSE files' = files]_vars

(***************************************************************************)
(* VerifySession: Readers feed the hash queue, two Hashers write the       *)
(* temporary journal, which is then diffed against the input journal.      *)
(***************************************************************************)
\* The descriptors a Reader enqueues for its segment when every pool
\* acquisition returns a buffer.
RECURSIVE ReaderDescs(_)
ReaderDescs(r) ==
    LET buf == PoolBuffer("session", NoData)
        len == ReaderRead(r, buf)
    IN  IF len = 0 THEN <<>>
        ELSE <<ReadDesc(r, len, buf)>>
             \o ReaderDescs([r EXCEPT !.offset = @ + len])

\* The journal a journaling Sender writes while it sends info: one record
\* per descriptor, with the digest of Sender::write.
RECURSIVE SenderJournal(_, _)
SenderJournal(info, iter) ==
    IF iter > Len(info) THEN <<>>
    ELSE LET ds == ReaderDescs(Reader(info[iter].id, 0, info[iter].size, "tx"))
         IN  [i \in DOMAIN ds |->
                HashRecordOf(ds[i].fileId, ds[i].offset, ds[i].len,
                             SenderDigest(ds[i]))]
             \o SenderJournal(info, nextFile(info, iter + 1))

\* The input journal of the verify session.
InputJournal == SenderJournal(info_, nextFile(info_, 1))

\* The Hasher that holds the mutex of the hash queue, if any.
HashQueueLocked == \E h \in Hashers : hashExec_[h].pc = "locked"

\* After VerifySession::start: info_ is the FileInfo list of the input
\* journal, and the local files are as they were when it was written.
VerifyInit ==
    /\ IdleExcept("xfer")
    /\ info_ \in {getFileInfo(t) : t \in Trees}
    /\ fileIter_ = nextFile(info_, 1)
    /\ readExec_ = <<>>
    /\ readResults_ = <<>>
    /\ pool_ = PoolBuffers
    /\ queue_ = <<>>
    /\ hashQueue_ = <<>>
    /\ sendExec_ = <<>>
    /\ stops = {}
    /\ socks = <<>>
    /\ recvExec_ = <<>>
    /\ rxPools = <<>>
    /\ rxQueue_ = <<>>
    /\ writeExec_ = "idle"
    /\ files = <<>>
    /\ hashExec_ = [h \in Hashers |-> [phase |-> "loop", pc |-> "idle", desc |-> NoDesc]]
    /\ journal_ = <<>>
    /\ runPc = "verify"
    /\ rxPc = "idle"

\* The put on the hash queue with its 1 ms deadline, when it succeeds; then
\* the end of the turn.
ReaderHashPut ==
    /\ UnchangedExcept("xfer")
    /\ readExec_ # <<>>
    /\ Head(readExec_).pc = "hash"
    /\ ~HashQueueLocked
    /\ Len(hashQueue_) < QueueSizeLimit
    /\ hashQueue_' = Append(hashQueue_, Head(readExec_).desc)
    /\ readExec_' = <<ReaderAdvance(Head(readExec_))>> \o Tail(readExec_)
    /\ UNCHANGED <<info_, fileIter_, readResults_, pool_, queue_, sendExec_,
                   stops, socks, recvExec_, rxPools, rxQueue_, writeExec_, files,
                   hashExec_, journal_, runPc, rxPc>>

\* The put on the hash queue when it fails, because the mutex is not
\* acquired within 1 ms or the queue is full: a warning is logged, the turn
\* ends, and the block's buffer goes back to the pool unless the primary
\* queue holds it.
ReaderHashPutFails ==
    /\ UnchangedExcept("xfer")
    /\ readExec_ # <<>>
    /\ Head(readExec_).pc = "hash"
    /\ HashQueueLocked \/ Len(hashQueue_) >= QueueSizeLimit
    /\ readExec_' = <<ReaderAdvance(Head(readExec_))>> \o Tail(readExec_)
    /\ pool_' = IF Head(readExec_).queue THEN pool_ ELSE pool_ + 1
    /\ UNCHANGED <<info_, fileIter_, readResults_, queue_, hashQueue_, sendExec_,
                   stops, socks, recvExec_, rxPools, rxQueue_, writeExec_, files,
                   hashExec_, journal_, runPc, rxPc>>

\* VerifySession::runOnce.
VerifyRunOnce ==
    /\ UnchangedExcept("xfer")
    /\ runPc = "verify"
    /\ LET sub == SubmitFiles(info_, fileIter_, readExec_,
                              CollectReady(readResults_), "verify")
           drained == sub.iter > Len(info_) /\ sub.results = <<>>
       IN  /\ fileIter_' = sub.iter
           /\ readExec_' = sub.exec
           /\ readResults_' = sub.results
           /\ stops' = IF drained THEN stops \cup {"hash"} ELSE stops
           /\ runPc' = IF drained /\ \A h \in Hashers :
                                        hashExec_[h].phase = "finished"
                         THEN "done" ELSE "verify"
    /\ UNCHANGED <<info_, pool_, queue_, hashQueue_, sendExec_, socks, recvExec_,
                   rxPools, rxQueue_, writeExec_, files, hashExec_, journal_, rxPc>>

\* WaitQueue::get in Hasher::runOnce: the mutex is acquired.
HasherLock(h) ==
    /\ UnchangedExcept("xfer")
    /\ Running(hashExec_[h].phase)
    /\ hashExec_[h].pc = "idle"
    /\ ~HashQueueLocked
    /\ hashExec_' = [hashExec_ EXCEPT ![h].pc = "locked"]
    /\ UNCHANGED <<info_, fileIter_, readExec_, readResults_, pool_, queue_,
                   hashQueue_, sendExec_, stops, socks, recvExec_, rxPools,
                   rxQueue_, writeExec_, files, journal_, runPc, rxPc>>

\* The get returns the oldest descriptor.
HasherGet(h) ==
    /\ UnchangedExcept("xfer")
    /\ hashExec_[h].pc = "locked"
    /\ hashQueue_ # <<>>
    /\ hashExec_' = [hashExec_ EXCEPT ![h].pc = "hash", ![h].desc = Head(hashQueue_)]
    /\ hashQueue_' = Tail(hashQueue_)
    /\ UNCHANGED <<info_, fileIter_, readExec_, readResults_, pool_, queue_,
                   sendExec_, stops, socks, recvExec_, rxPools, rxQueue_,
                   writeExec_, files, journal_, runPc, rxPc>>

\* The get times out on the empty queue and runOnce returns: to be called
\* again, or with stop requested to the final runOnce, or to the end.
HasherGetEmpty(h) ==
    /\ UnchangedExcept("xfer")
    /\ hashExec_[h].pc = "locked"
    /\ hashQueue_ = <<>>
    /\ hashExec_' =
        [hashExec_ EXCEPT ![h].pc = "idle",
            ![h].phase = IF @ = "loop" /\ "hash" \notin stops THEN "loop"
                         ELSE ThreadExit(@, TRUE, TRUE)]
    /\ UNCHANGED <<info_, fileIter_, readExec_, readResults_, pool_, queue_,
                   hashQueue_, sendExec_, stops, socks, recvExec_, rxPools,
                   rxQueue_, writeExec_, files, journal_, runPc, rxPc>>

\* Hasher::runOnce for one descriptor: hash(), and the record handed to
\* the journal of the session; the descriptor is destroyed, which returns
\* the buffer to the pool.
HasherWrite(h) ==
    /\ UnchangedExcept("xfer")
    /\ hashExec_[h].pc = "hash"
    /\ LET desc == hashExec_[h].desc
       IN  journal_' = Append(journal_,
                HashRecordOf(desc.fileId, desc.offset, desc.len, HasherHash(desc)))
    /\ pool_' = pool_ + 1
    /\ hashExec_' = [hashExec_ EXCEPT ![h].pc = "idle", ![h].desc = NoDesc]
    /\ UNCHANGED <<info_, fileIter_, readExec_, readResults_, queue_, hashQueue_,
                   sendExec_, stops, socks, recvExec_, rxPools, rxQueue_,
                   writeExec_, files, runPc, rxPc>>

VerifyNext ==
    \/ ReaderGet
    \/ ReaderHashPut
    \/ ReaderHashPutFails
    \/ VerifyRunOnce
    \/ \E h \in Hashers : HasherLock(h)
    \/ \E h \in Hashers : HasherGet(h)
    \/ \E h \in Hashers : HasherGetEmpty(h)
    \/ \E h \in Hashers : HasherWrite(h)

SpecVerify == VerifyInit /\ [][VerifyNext]_vars

\* VerifySession::diff once the session has finished.
VerifyDiff == diffJournals(InputJournal, journal_)

\* The records of the temporary journal for the block of a record of J.
SameBlock(record) ==
    {i \in DOMAIN journal_ : Key(journal_[i]) = Key(record)}

\* C7: when the verify session has finished, the diff against the input
\* journal is empty: the temporary journal holds exactly one record for
\* every block recorded in J, with the same hash, and no other record.
C7_VerifyReportsNoDifference ==
    runPc = "done" =>
        /\ Len(VerifyDiff) = 0
        /\ \A j \in DOMAIN InputJournal :
              /\ Cardinality(SameBlock(InputJournal[j])) = 1
              /\ \A i \in SameBlock(InputJournal[j]) :
                    journal_[i].hash = InputJournal[j].hash
        /\ \A i \in DOMAIN journal_ :
              \E j \in DOMAIN InputJournal : Key(InputJournal[j]) = Key(journal_[i])

\* A Hasher finishes its turn for the descriptor it took off the queue.
HasherRecords(h) == hashExec_[h].pc = "hash" /\ hashExec_'[h].pc = "idle"

\* C36: for a descriptor it took off the hash queue the Hasher appends
\* exactly one record (fileId, offset, len, h), where h is the hash of the
\* first len bytes of the buffer, the hash a Sender computes for the block.
C36_HasherHashesPayload ==
    [][\A h \in Hashers : HasherRecords(h) =>
          LET desc == hashExec_[h].desc
          IN  journal_' = Append(journal_,
                  HashRecordOf(desc.fileId, desc.offset, desc.len,
                               SenderDigest(desc)))]_vars

\* The same, with the hash required of the blocks that fill their buffer
\* only.
C36_FullBlocks ==
    [][\A h \in Hashers : HasherRecords(h) =>
          LET desc == hashExec_[h].desc
          IN  /\ Len(journal_') = Len(journal_) + 1
              /\ SubSeq(journal_', 1, Len(journal_)) = journal_
              /\ Key(journal_'[Len(journal_')]) =
                    Key(HashRecordOf(desc.fileId, desc.offset, desc.len, 0))
              /\ journal_'[Len(journal_')].size = desc.len
              /\ (desc.len = desc.buf.size) =>
                    (journal_'[Len(journal_')].hash = SenderDigest(desc))]_vars

(***************************************************************************)
(* Receiver (src/src/util/Receiver.cc) on its data connection.  Lengths    *)
(* are counted in units: a unit is a run of bytes that no read() splits,   *)
(* so a header is two units (the magic, the other fields) and a payload of *)
(* payloadLength n is n units.                                             *)
(***************************************************************************)
NumReceivers == 2

\* The size of a payload buffer (BufSize), in units.
RxBufUnits == 2

\* Free buffers of a Receiver's pool.
RxPoolCount == 1

\* Frames the peers send, whole or cut short, over all connections.
MaxFrames == 2

\* Connections a peer makes after the first one of each listener.
MaxReconnects == 1

Receivers == 1 .. NumReceivers

\* A magic equal to Magic, one that differs in the version bits only, one
\* that differs elsewhere.
VersionMagic == [Magic EXCEPT ![4] = 1]

OtherMagic == [Magic EXCEPT ![3] = 0]

WireMagics == {Magic, VersionMagic, OtherMagic}

\* The headers a peer may send as its k-th frame.
WireHeaders(k) ==
    {[magic |-> m, fileOffset |-> 10 * k, payloadLength |-> n, fileId |-> k] :
        m \in WireMagics, n \in 0 .. RxBufUnits + 1}

\* The bytes of a ChunkHeader, as units.
HeaderUnits(hdr) ==
    <<[magic |-> hdr.magic],
      [fileOffset |-> hdr.fileOffset, payloadLength |-> hdr.payloadLength,
       fileId |-> hdr.fileId]>>

\* wire::ChunkHeader header_{ }
ZeroHeader ==
    HeaderUnits([magic |-> <<0, 0, 0, 0>>, fileOffset |-> 0, payloadLength |-> 0,
                 fileId |-> 0])

\* sizeof(header_)
SizeofHeader == Len(ZeroHeader)

\* The payload bytes of the k-th frame.
PayloadUnits(k, n) == [i \in 1 .. n |-> [frame |-> k, pos |-> i]]

\* A frame as the peer writes it.
WireFrame(hdr, k) ==
    [hdr |-> hdr, payload |-> PayloadUnits(k, hdr.payloadLength)]

FrameUnits(frame) == HeaderUnits(frame.hdr) \o frame.payload

\* What the memory of a fresh buffer holds.
StaleUnit == [frame |-> 0, pos |-> 0]

\* Buffer buf_{ }, and a buffer of the pool.
NoBuffer == [held |-> FALSE, data |-> <<>>]

FreshBuffer == [held |-> TRUE, data |-> [i \in 1 .. RxBufUnits |-> StaleUnit]]

\* ::read(fd, dst + offset, ...) having returned the units got: they are
\* stored from offset on; what lies beyond the object is not part of it.
Store(dst, offset, got) ==
    [i \in DOMAIN dst |->
        IF i > offset /\ i <= offset + Len(got) THEN got[i - offset] ELSE dst[i]]

\* The first n units of s, and the rest.
Take(s, n) == SubSeq(s, 1, n)

Drop(s, n) == SubSeq(s, n + 1, Len(s))

\* The lengths a blocking read() of `want` bytes may return on a connection
\* with `avail` bytes in flight.
ReadLengths(want, avail) == 1 .. Min(want, avail)

\* The descriptor in `queue_->put({buf, header_.fileId, header_.fileOffset,
\* header_.payloadLength}, 100ms)`.
RecvDesc(r, rcv) ==
    [buf |-> [pool |-> r, data |-> rcv.buf_.data],
     fileId |-> rcv.header_[2].fileId,
     offset |-> rcv.header_[2].fileOffset,
     len |-> rcv.header_[2].payloadLength]

NewReceiver ==
    [fd_ |-> FALSE, haveHeader_ |-> FALSE, offset_ |-> 0, header_ |-> ZeroHeader,
     buf_ |-> NoBuffer, pc |-> "top", phase |-> "loop", tried |-> FALSE,
     beyond |-> FALSE]

NoConn ==
    [state |-> "none", bytes |-> <<>>, closed |-> FALSE, sent |-> <<>>,
     cut |-> FALSE, got |-> <<>>]

\* readHeader on a magic other than Magic, the header being in header_:
\* `fd_ = ScopedFd{ }; offset_ = 0; return 0`, and waitData returns true.
RejectHeaderKeepOffset(rcv, header) ==
    [rcv EXCEPT !.header_ = header, !.fd_ = FALSE, !.offset_ = SizeofHeader,
                !.pc = "top"]

RejectHeader(rcv, header) ==
    [rcv EXCEPT !.header_ = header, !.fd_ = FALSE, !.offset_ = 0, !.pc = "top"]

\* After RxSession::start: the listeners are bound, the Receivers run, the
\* Writer takes descriptors off the queue, and a peer has connected to every
\* listener.
ReceiverInit ==
    /\ IdleExcept("recv")
    /\ receivers = [r \in Receivers |-> NewReceiver]
    /\ conns = [r \in Receivers |-> [NoConn EXCEPT !.state = "pending"]]
    /\ rpools = [r \in Receivers |-> RxPoolCount]
    /\ wqueue = <<>>
    /\ stopReq = FALSE
    /\ sentCount = [frames |-> 0, conns |-> 0]

\* The thread of Runnable_ at `while (!token.stop_requested())` with stop
\* requested: Receivers are added without DoFinalize.
RecvStopped(r) ==
    /\ UnchangedExcept("recv")
    /\ receivers[r].phase = "loop"
    /\ receivers[r].pc = "top"
    /\ stopReq
    /\ receivers' = [receivers EXCEPT ![r].phase = ThreadExit("loop", TRUE, FALSE)]
    /\ UNCHANGED <<conns, rpools, wqueue, stopReq, sentCount>>

\* Receiver::runOnce up to its first read(): waitConnect when there is no
\* data connection, whose poll gives up after 50 ms; then waitData.
RecvRunOnce(r) ==
    /\ UnchangedExcept("recv")
    /\ receivers[r].phase = "loop"
    /\ receivers[r].pc = "top"
    /\ ~stopReq
    /\ LET rcv == receivers[r]
           next == IF rcv.haveHeader_ THEN "read" ELSE "header"
       IN  IF rcv.fd_
             THEN /\ receivers' = [receivers EXCEPT ![r].pc = next]
                  /\ UNCHANGED conns
             ELSE IF conns[r].state = "pending"
                    THEN /\ receivers' = [receivers EXCEPT ![r].fd_ = TRUE,
                                                           ![r].pc = next]
                         /\ conns' = [conns EXCEPT ![r].state = "open"]
                    ELSE UNCHANGED <<receivers, conns>>
    /\ UNCHANGED <<rpools, wqueue, stopReq, sentCount>>

\* Receiver::readHeader and what waitData does with its result.
RecvReadHeader(r) ==
    /\ UnchangedExcept("recv")
    /\ receivers[r].phase = "loop"
    /\ receivers[r].pc = "header"
    /\ LET rcv == receivers[r]
           c == conns[r]
       IN  IF c.bytes = <<>>
             THEN /\ c.closed
                  /\ receivers' = [receivers EXCEPT ![r].phase = "finished",
                                                    ![r].pc = "top"]
                  /\ UNCHANGED conns
             ELSE \E len \in ReadLengths(SizeofHeader - rcv.offset_, Len(c.bytes)) :
                    LET header == Store(rcv.header_, rcv.offset_, Take(c.bytes, len))
                        offset == rcv.offset_ + len
                    IN  IF offset < SizeofHeader
                          THEN /\ receivers' = [receivers EXCEPT
                                        ![r].header_ = header,
                                        ![r].offset_ = offset,
                                        ![r].pc = "top"]
                               /\ conns' = [conns EXCEPT ![r].bytes = Drop(@, len)]
                          ELSE IF header[1].magic # Magic
                            THEN /\ receivers' = [receivers EXCEPT
                                        ![r] = RejectHeader(rcv, header)]
                                 /\ conns' = [conns EXCEPT ![r] = NoConn]
                            ELSE /\ receivers' = [receivers EXCEPT
                                        ![r].header_ = header,
                                        ![r].offset_ = offset,
                                        ![r].pc = "acquire"]
                                 /\ conns' = [conns EXCEPT ![r].bytes = Drop(@, len)]
    /\ UNCHANGED <<rpools, wqueue, stopReq, sentCount>>

\* waitData after a header: `buf_ = pool_->get()`, which waits for a free
\* buffer without a deadline.
RecvAcquire(r) ==
    /\ UnchangedExcept("recv")
    /\ receivers[r].phase = "loop"
    /\ receivers[r].pc = "acquire"
    /\ rpools[r] > 0
    /\ rpools' = [rpools EXCEPT ![r] = @ - 1]
    /\ receivers' = [receivers EXCEPT ![r].buf_ = FreshBuffer,
                                      ![r].haveHeader_ = TRUE,
                                      ![r].offset_ = 0,
                                      ![r].pc = "read"]
    /\ UNCHANGED <<conns, wqueue, stopReq, sentCount>>

\* Receiver::read and what waitData does with its result.  A read() of zero
\* bytes returns 0.  A read() that stores beyond the end of the buffer
\* either fails with EFAULT, and the exception ends the thread, or writes
\* to the memory that follows.
RecvRead(r) ==
    /\ UnchangedExcept("recv")
    /\ receivers[r].phase = "loop"
    /\ receivers[r].pc = "read"
    /\ LET rcv == receivers[r]
           c == conns[r]
           want == rcv.header_[2].payloadLength - rcv.offset_
       IN  IF want = 0 \/ c.bytes = <<>>
             THEN /\ want = 0 \/ c.closed
                  /\ receivers' = [receivers EXCEPT ![r].phase = "finished",
                                                    ![r].pc = "top"]
                  /\ UNCHANGED conns
             ELSE \E len \in ReadLengths(want, Len(c.bytes)), fault \in BOOLEAN :
                    LET offset == rcv.offset_ + len
                        outside == offset > Len(rcv.buf_.data)
                    IN  IF fault
                          THEN /\ outside
                               /\ receivers' = [receivers EXCEPT
                                        ![r].phase = "finished", ![r].pc = "top"]
                               /\ UNCHANGED conns
                          ELSE /\ receivers' = [receivers EXCEPT
                                        ![r].buf_.data =
                                            Store(@, rcv.offset_, Take(c.bytes, len)),
                                        ![r].offset_ = offset,
                                        ![r].beyond = @ \/ outside,
                                        ![r].pc =
                                            IF offset >= rcv.header_[2].payloadLength
                                              THEN "put" ELSE "top"]
                               /\ conns' = [conns EXCEPT ![r].bytes = Drop(@, len)]
    /\ UNCHANGED <<rpools, wqueue, stopReq, sentCount>>

\* One put of the loop `while (!stop_requested() && !queue_->put(...))`
\* that returns false: the queue has no size limit, the put fails when it
\* does not get the lock within its 100 ms.
RecvPutTimedOut(r) ==
    /\ UnchangedExcept("recv")
    /\ receivers[r].phase = "loop"
    /\ receivers[r].pc = "put"
    /\ ~stopReq
    /\ ~receivers[r].tried
    /\ receivers' = [receivers EXCEPT ![r].tried = TRUE]
    /\ UNCHANGED <<conns, rpools, wqueue, stopReq, sentCount>>

\* The end of that loop, by a put that returns true or by the stop request,
\* and the rest of waitData; a buffer that no descriptor holds goes back to
\* its pool.
RecvPut(r) ==
    /\ UnchangedExcept("recv")
    /\ receivers[r].phase = "loop"
    /\ receivers[r].pc = "put"
    /\ LET desc == RecvDesc(r, receivers[r])
       IN  IF stopReq
             THEN /\ rpools' = [rpools EXCEPT ![r] = @ + 1]
                  /\ UNCHANGED <<wqueue, conns>>
             ELSE /\ wqueue' = Append(wqueue, desc)
                  /\ conns' = [conns EXCEPT ![r].got = Append(@, desc)]
                  /\ UNCHANGED rpools
    /\ receivers' = [receivers EXCEPT ![r].buf_ = NoBuffer,
                                      ![r].haveHeader_ = FALSE,
                                      ![r].offset_ = 0,
                                      ![r].tried = FALSE,
                                      ![r].pc = "top"]
    /\ UNCHANGED <<stopReq, sentCount>>

\* Writer::runOnce for one descriptor; destroying it returns the buffer to
\* the pool of its Receiver.  The Writer's own end is part of the pipeline
\* model (WriterGetEmpty).
RecvWriterGet ==
    /\ UnchangedExcept("recv")
    /\ wqueue # <<>>
    /\ rpools' = [rpools EXCEPT ![Head(wqueue).buf.pool] = @ + 1]
    /\ wqueue' = Tail(wqueue)
    /\ UNCHANGED <<receivers, conns, stopReq, sentCount>>

\* RxSession::finish: cancel() on both executors.
RecvFinish ==
    /\ UnchangedExcept("recv")
    /\ ~stopReq
    /\ stopReq' = TRUE
    /\ UNCHANGED <<receivers, conns, rpools, wqueue, sentCount>>

\* A peer writes its next frame whole.
PeerSend(r) ==
    /\ UnchangedExcept("recv")
    /\ conns[r].state # "none"
    /\ ~conns[r].closed
    /\ ~conns[r].cut
    /\ conns[r].bytes = <<>>
    /\ sentCount.frames < MaxFrames
    /\ \E hdr \in WireHeaders(sentCount.frames + 1) :
         LET frame == WireFrame(hdr, sentCount.frames + 1)
         IN  conns' = [conns EXCEPT ![r].bytes = FrameUnits(frame),
                                    ![r].sent = Append(@, frame)]
    /\ sentCount' = [sentCount EXCEPT !.frames = @ + 1]
    /\ UNCHANGED <<receivers, rpools, wqueue, stopReq>>

\* A peer writes the first n bytes of a frame and nothing after them.
PeerSendCut(r) ==
    /\ UnchangedExcept("recv")
    /\ conns[r].state # "none"
    /\ ~conns[r].closed
    /\ ~conns[r].cut
    /\ conns[r].bytes = <<>>
    /\ sentCount.frames < MaxFrames
    /\ \E hdr \in WireHeaders(sentCount.frames + 1) :
         LET units == FrameUnits(WireFrame(hdr, sentCount.frames + 1))
         IN  \E n \in 1 .. Len(units) - 1 :
                conns' = [conns EXCEPT ![r].bytes = Take(units, n),
                                       ![r].cut = TRUE]
    /\ sentCount' = [sentCount EXCEPT !.frames = @ + 1]
    /\ UNCHANGED <<receivers, rpools, wqueue, stopReq>>

\* A peer closes its end.  The Receiver sees the close once it has read the
\* bytes in flight, so the close is taken when none are left.
PeerClose(r) ==
    /\ UnchangedExcept("recv")
    /\ conns[r].state # "none"
    /\ ~conns[r].closed
    /\ conns[r].bytes = <<>>
    /\ conns' = [conns EXCEPT ![r].closed = TRUE]
    /\ UNCHANGED <<receivers, rpools, wqueue, stopReq, sentCount>>

\* A peer connects to a listener that has no connection.
PeerConnect(r) ==
    /\ UnchangedExcept("recv")
    /\ conns[r].state = "none"
    /\ sentCount.conns < MaxReconnects
    /\ conns' = [conns EXCEPT ![r].state = "pending"]
    /\ sentCount' = [sentCount EXCEPT !.conns = @ + 1]
    /\ UNCHANGED <<receivers, rpools, wqueue, stopReq>>

ReceiverStep(r) ==
    \/ RecvStopped(r)
    \/ RecvRunOnce(r)
    \/ RecvReadHeader(r)
    \/ RecvAcquire(r)
    \/ RecvRead(r)
    \/ RecvPutTimedOut(r)
    \/ RecvPut(r)

ReceiverNext ==
    \/ \E r \in Receivers : ReceiverStep(r)
    \/ RecvWriterGet
    \/ RecvFinish
    \/ \E r \in Receivers : PeerSend(r)
    \/ \E r \in Receivers : PeerSendCut(r)
    \/ \E r \in Receivers : PeerClose(r)
    \/ \E r \in Receivers : PeerConnect(r)

SpecReceiver == ReceiverInit /\ [][ReceiverNext]_vars

\* Every thread of the receiving side is scheduled again and again; what a
\* peer does, and when the session is finished, is up to them.
ReceiverFairness ==
    /\ \A r \in Receivers : WF_vars(ReceiverStep(r))
    /\ WF_vars(RecvWriterGet)

SpecReceiverFair == SpecReceiver /\ ReceiverFairness

(***************************************************************************)
(* Receiver: properties                                                    *)
(***************************************************************************)
\* The step in which Receiver r has read a header completely and goes on to
\* its payload, and the one in which it closes the connection instead.
Accepts(r) == receivers[r].pc = "header" /\ receivers'[r].pc = "acquire"

Rejects(r) == receivers[r].pc = "header" /\ receivers[r].fd_ /\ ~receivers'[r].fd_

\* C22: a completely read header is accepted if and only if its magic with
\* the 16 version bits masked off equals ChunkHeader::Magic.
C22_AcceptsMaskedMagic ==
    [][\A r \in Receivers :
         /\ Accepts(r) => MagicMasked(receivers'[r].header_[1].magic) = Magic
         /\ Rejects(r) => MagicMasked(receivers'[r].header_[1].magic) # Magic]_vars

\* C23: the step that rejects a header closes the data connection, puts
\* nothing on the queue, holds no payload buffer and leaves the Receiver at
\* the top of its loop without a connection, from where its next step is an
\* accept on its listener (or the end of the thread on a stop request); the
\* other Receivers, their connections and pools and the queue the Writer
\* reads are as before.
C23_RejectClosesAndWaits ==
    [][\A r \in Receivers :
         /\ Rejects(r) =>
               /\ conns'[r].state = "none"
               /\ wqueue' = wqueue
               /\ rpools' = rpools
               /\ ~receivers'[r].buf_.held
               /\ ~receivers'[r].haveHeader_
               /\ receivers'[r].offset_ = 0
               /\ receivers'[r].phase = "loop"
               /\ receivers'[r].pc = "top"
               /\ \A o \in Receivers \ {r} :
                     receivers'[o] = receivers[o] /\ conns'[o] = conns[o]
         /\ (~receivers[r].fd_ /\ receivers'[r] # receivers[r]) =>
               \/ receivers'[r].fd_ /\ conns[r].state = "pending"
                    /\ conns'[r].state = "open" /\ receivers'[r].pc = "header"
               \/ stopReq /\ receivers'[r].phase = "finished"]_vars

\* A Receiver that rejected a header has accepted the next connection and
\* waits for its first header, another Receiver still running.
C23_Witness ==
    \E r \in Receivers :
        /\ receivers[r].fd_
        /\ receivers[r].pc = "header"
        /\ receivers[r].offset_ = 0
        /\ receivers[r].header_[1].magic = OtherMagic
        /\ \E o \in Receivers \ {r} : receivers[o].phase = "loop"

\* C24: a header whose payloadLength exceeds the buffer size is not taken
\* as a frame, and no read stores payload bytes beyond the end of the
\* buffer.
C24_PayloadFitsBuffer ==
    \A r \in Receivers :
        /\ receivers[r].pc \in {"acquire", "read", "put"}
              => receivers[r].header_[2].payloadLength <= RxBufUnits
        /\ ~receivers[r].beyond

\* C26: once stop is requested on the threads of the session, every
\* Receiver thread ends, whatever call it is in at that moment.
C26_StopEndsEveryTask ==
    stopReq ~> \A r \in Receivers : receivers[r].phase = "finished"

\* The descriptor a frame is to be enqueued as, and whether d is it.
IsDescOf(d, frame) ==
    /\ d.fileId = frame.hdr.fileId
    /\ d.offset = frame.hdr.fileOffset
    /\ d.len = frame.hdr.payloadLength
    /\ Take(d.buf.data, d.len) = frame.payload

ValidFrame(frame) ==
    frame.hdr.magic = Magic /\ frame.hdr.payloadLength \in 0 .. RxBufUnits

\* C30: on a connection that carries valid frames only, the descriptors the
\* Receiver has enqueued are those of the first frames, one each and in
\* order; unless stop is requested the Receiver runs until the peer closes,
\* and has then enqueued every whole frame and nothing of a frame cut short.
C30_OneDescriptorPerFrame ==
    \A r \in Receivers :
        LET c == conns[r]
        IN  (\A i \in DOMAIN c.sent : ValidFrame(c.sent[i])) =>
              /\ Len(c.got) <= Len(c.sent)
              /\ \A i \in DOMAIN c.got : IsDescOf(c.got[i], c.sent[i])
              /\ (receivers[r].phase = "finished" /\ ~stopReq) =>
                    /\ c.closed
                    /\ c.bytes = <<>>
                    /\ Len(c.got) = Len(c.sent)

(***************************************************************************)
(* The transfer request: generateTransferRequestMsg (src/UtilJson.cc),     *)
(* InfoReceiver (src/src/util/InfoReceiver.cc), deserializeTransferRequest *)
(***************************************************************************)
\* The entries of a list long enough for its CBOR encoding to exceed one
\* ChunkHeader.
LongListLen == 18

\* The lists of a request: the short ones, and long ones of one entry
\* repeated.
RequestLists ==
    FileInfoLists \cup
    {[i \in 1 .. n |-> f] : n \in LongListLen .. LongListLen + 1, f \in FileInfos}

\* j["type"] = 0; j["client"] = 0; j["info"] = info
RequestJson(info) ==
    [type |-> 0, client |-> 0,
     info |-> [i \in DOMAIN info |-> FileInfoToJson(info[i])]]

\* The bytes nlohmann::json::to_cbor appends for a request: the three keys
\* and the array head, and the entries.
CborRequestBytes == 21

RequestCborSize(j) == CborRequestBytes + Len(j.info) * CborFileInfoBytes

\* generateTransferRequestMsg: sizeof(ChunkHeader) bytes, the CBOR bytes
\* appended to them, then magic and payloadLength stored in the first.
generateTransferRequestMsg(info) ==
    LET j == RequestJson(info)
        size == ChunkHeaderSize + RequestCborSize(j)
    IN  [size |-> size,
         header |-> [magic |-> Magic, payloadLength |-> size - ChunkHeaderSize],
         cborAt |-> ChunkHeaderSize,
         cbor |-> j]

\* nlohmann::json::from_cbor on the n bytes of a message from byte `from`
\* on: the value, when these are the bytes of its encoding.
FromCbor(msg, from, n) ==
    IF from = msg.cborAt /\ n = msg.size - msg.cborAt
      THEN [ok |-> TRUE, json |-> msg.cbor]
      ELSE [ok |-> FALSE, json |-> <<>>]

\* deserializeTransferRequest(const Buffer &) on those bytes.
deserializeTransferRequestNoSizeCheck(msg, from, n) ==
    LET j == FromCbor(msg, from, n)
    IN  IF ~j.ok THEN [status |-> "parse_error", fileInfo |-> <<>>]
        ELSE [status |-> "ok",
              fileInfo |-> [i \in DOMAIN j.json.info |->
                                FileInfoFromJson(j.json.info[i])]]

deserializeTransferRequest(msg, from, n) ==
    IF n < ChunkHeaderSize
      THEN [status |-> "request buffer is too short", fileInfo |-> <<>>]
      ELSE deserializeTransferRequestNoSizeCheck(msg, from, n)

\* InfoReceiver::info() on a buf_ that holds the first bufSize bytes of msg.
InfoReceiverInfo(msg, bufSize) ==
    IF bufSize < ChunkHeaderSize \/ msg.header.magic # Magic
      THEN [status |-> "invalid chunk magic", fileInfo |-> <<>>]
    ELSE IF ChunkHeaderSize + msg.header.payloadLength > bufSize
      THEN [status |-> "invalid payload length", fileInfo |-> <<>>]
    ELSE deserializeTransferRequest(msg, ChunkHeaderSize, msg.header.payloadLength)

\* The lengths ::recv may return when sz bytes are asked for and avail are
\* in flight.
RecvLengths(sz, avail) ==
    {n \in {100, ChunkHeaderSize - 1, ChunkHeaderSize, Min(sz, avail)} :
        n >= 1 /\ n <= Min(sz, avail)}

\* sendTransferRequest has written the message of some list and the sender
\* has closed; the InfoReceiver is new.
InfoInit ==
    /\ IdleExcept("info")
    /\ request \in RequestLists
    /\ service = [msg |-> generateTransferRequestMsg(request),
                  avail |-> generateTransferRequestMsg(request).size]
    /\ infoRx = [fd_ |-> FALSE, size |-> 0, offset_ |-> 0, haveInfo_ |-> FALSE]
    /\ infoOut = [status |-> "none", fileInfo |-> <<>>]

\* InfoReceiver::runOnce: the accept on the first call, the resize of buf_
\* when less than 4096 bytes are free, one recv, and the end of the stream.
InfoRunOnce ==
    /\ UnchangedExcept("info")
    /\ ~infoRx.haveInfo_
    /\ LET size == IF infoRx.size - infoRx.offset_ < ChunkHeaderSize
                     THEN infoRx.size + ChunkHeaderSize ELSE infoRx.size
           sz == size - infoRx.offset_
       IN  IF service.avail = 0
             THEN /\ infoRx' = [infoRx EXCEPT !.fd_ = TRUE,
                                              !.size = infoRx.offset_,
                                              !.haveInfo_ = TRUE]
                  /\ UNCHANGED service
             ELSE \E len \in RecvLengths(sz, service.avail) :
                    /\ infoRx' = [infoRx EXCEPT !.fd_ = TRUE,
                                                !.size = size,
                                                !.offset_ = @ + len]
                    /\ service' = [service EXCEPT !.avail = @ - len]
    /\ UNCHANGED <<request, infoOut>>

\* awaitTransferRequest after runOnce returned true: rx.info().
InfoCall ==
    /\ UnchangedExcept("info")
    /\ infoRx.haveInfo_
    /\ infoOut.status = "none"
    /\ infoOut' = InfoReceiverInfo(service.msg, infoRx.size)
    /\ UNCHANGED <<request, service, infoRx>>

InfoNext == InfoRunOnce \/ InfoCall

SpecInfo == InfoInit /\ [][InfoNext]_vars

\* C25: the message of a list is one ChunkHeader, whose payloadLength is
\* the length of the CBOR encoding, followed by that encoding; and info(),
\* called once the bytes have been received in whatever pieces, returns the
\* list.
C25_RequestRoundTrip ==
    /\ service.msg.header.magic = Magic
    /\ service.msg.header.payloadLength = RequestCborSize(RequestJson(request))
    /\ service.msg.size = ChunkHeaderSize + service.msg.header.payloadLength
    /\ service.msg.cborAt = ChunkHeaderSize
    /\ infoOut.status # "none" =>
          infoOut.status = "ok" /\ infoOut.fileInfo = request

(***************************************************************************)
(* ThreadExecutor (src/include/draft/util/ThreadExecutor.hh): each         *)
(* Runnable_ owns a thread that calls runOnce of its runnable in a loop.   *)
(* The runnable is one that works off the items handed to it, as Sender,   *)
(* Writer and Hasher do with their queues; its runOnce may also return     *)
(* false of its own accord, as Receiver's does, or throw.                  *)
(***************************************************************************)
NumRunnables == 2

MaxItems == 2

Runnables == 1 .. NumRunnables

Options == {"None", "DoFinalize"}

\* A thread that never makes the runOnce after its loop.
FinalizesNever(stopRequested, options) == FALSE

\* `token.stop_requested() && (options_ & Options::DoFinalize)`
Finalizes(stopRequested, options) == stopRequested /\ options = "DoFinalize"

\* Runnable_ as constructed: the thread is at the test of its loop.
\* finalCalls counts the invocations of runOnce made after the loop;
\* inLoopAtStop records whether the thread was in its loop when stop was
\* requested.
NewRunnable(options) ==
    [options |-> options, pc |-> "test", stop |-> FALSE, finished_ |-> FALSE,
     erased |-> FALSE, finalCalls |-> 0, inLoopAtStop |-> FALSE]

\* The items of a runnable: handed over, processed, and how many were
\* handed over and how many waiting when stop was requested.
NoWork == [queued |-> 0, processed |-> 0, atStop |-> 0, waitingAtStop |-> 0]

ExecInit ==
    /\ IdleExcept("exec")
    /\ runq_ \in [Runnables -> {NewRunnable(o) : o \in Options}]
    /\ work = [r \in Runnables |-> NoWork]

\* An item is handed to the runnable.
ExecProduce(r) ==
    /\ UnchangedExcept("exec")
    /\ work[r].queued < MaxItems
    /\ work' = [work EXCEPT ![r].queued = @ + 1]
    /\ UNCHANGED runq_

\* `while (!token.stop_requested())`: into runOnce, or out of the loop.
ThreadLoopTest(r) ==
    /\ UnchangedExcept("exec")
    /\ runq_[r].pc = "test"
    /\ runq_' = [runq_ EXCEPT ![r] =
                    IF @.stop THEN [@ EXCEPT !.pc = "after"]
                    ELSE [@ EXCEPT !.pc = "run"]]
    /\ UNCHANGED work

\* runOnce, in the loop or after it, processes an item.
ThreadProcess(r) ==
    /\ UnchangedExcept("exec")
    /\ runq_[r].pc \in {"run", "final"}
    /\ work[r].processed < work[r].queued
    /\ work' = [work EXCEPT ![r].processed = @ + 1]
    /\ UNCHANGED runq_

\* runOnce returns in the loop, no item waiting: !stop_requested(), or
\* false of the runnable's own accord; `if (!t_.runOnce(token)) break`.
ThreadRunOnceReturns(r) ==
    /\ UnchangedExcept("exec")
    /\ runq_[r].pc = "run"
    /\ work[r].processed = work[r].queued
    /\ \E ret \in {~runq_[r].stop, FALSE} :
          runq_' = [runq_ EXCEPT ![r].pc = IF ret THEN "test" ELSE "after"]
    /\ UNCHANGED work

\* runOnce throws in the loop: the exception is caught and the loop left.
ThreadRunOnceThrows(r) ==
    /\ UnchangedExcept("exec")
    /\ runq_[r].pc = "run"
    /\ runq_' = [runq_ EXCEPT ![r].pc = "after"]
    /\ UNCHANGED work

\* The `if` after the loop: the runOnce of DoFinalize, or none.
ThreadAfterLoop(r) ==
    /\ UnchangedExcept("exec")
    /\ runq_[r].pc = "after"
    /\ runq_' = [runq_ EXCEPT ![r] =
                    IF Finalizes(@.stop, @.options)
                      THEN [@ EXCEPT !.pc = "final", !.finalCalls = @ + 1]
                      ELSE [@ EXCEPT !.pc = "exit"]]
    /\ UNCHANGED work

\* The runOnce after the loop returns, no item waiting.
ThreadFinalReturns(r) ==
    /\ UnchangedExcept("exec")
    /\ runq_[r].pc = "final"
    /\ work[r].processed = work[r].queued
    /\ runq_' = [runq_ EXCEPT ![r].pc = "exit"]
    /\ UNCHANGED work

\* `finished_ = true`, and the thread ends.
ThreadFinished(r) ==
    /\ UnchangedExcept("exec")
    /\ runq_[r].pc = "exit"
    /\ runq_' = [runq_ EXCEPT ![r].pc = "done", ![r].finished_ = TRUE]
    /\ UNCHANGED work

\* Runnable_::cancel, of ThreadExecutor::cancel: thd_.request_stop().
RunnableCancel(r) ==
    /\ UnchangedExcept("exec")
    /\ ~runq_[r].erased
    /\ ~runq_[r].stop
    /\ runq_' = [runq_ EXCEPT ![r].stop = TRUE,
                              ![r].inLoopAtStop = runq_[r].pc \in {"test", "run"}]
    /\ work' = [work EXCEPT ![r].atStop = work[r].queued,
                            ![r].waitingAtStop = work[r].queued - work[r].processed]

\* ThreadExecutor::runOnce: the runnables that report finished are erased,
\* which joins their threads.
ExecutorRunOnce ==
    /\ UnchangedExcept("exec")
    /\ \E r \in Runnables : runq_[r].finished_ /\ ~runq_[r].erased
    /\ runq_' = [r \in Runnables |->
                    [runq_[r] EXCEPT !.erased = runq_[r].finished_]]
    /\ UNCHANGED work

ExecNext ==
    \/ \E r \in Runnables : ExecProduce(r)
    \/ \E r \in Runnables : ThreadLoopTest(r)
    \/ \E r \in Runnables : ThreadProcess(r)
    \/ \E r \in Runnables : ThreadRunOnceReturns(r)
    \/ \E r \in Runnables : ThreadRunOnceThrows(r)
    \/ \E r \in Runnables : ThreadAfterLoop(r)
    \/ \E r \in Runnables : ThreadFinalReturns(r)
    \/ \E r \in Runnables : ThreadFinished(r)
    \/ \E r \in Runnables : RunnableCancel(r)
    \/ ExecutorRunOnce

SpecExecutor == ExecInit /\ [][ExecNext]_vars

(***************************************************************************)
(* ThreadExecutor: properties                                              *)
(***************************************************************************)
\* The thread of runnable r invokes runOnce.
Invokes(r) ==
    /\ runq_[r].pc \notin {"run", "final"}
    /\ runq_'[r].pc \in {"run", "final"}

\* C34: a runnable with DoFinalize whose thread was in its loop when stop
\* was requested has, when it is finished, had runOnce invoked exactly once
\* after the loop, and every item handed to it before the stop request has
\* been processed; a runnable without the flag has runOnce invoked only
\* from a loop test that found stop not requested; and once finished_ is
\* set no runOnce is in progress or invoked and nothing more is processed.
C34_FinalRunOnce ==
    /\ [](\A r \in Runnables :
            /\ (runq_[r].finished_ \/ runq_[r].erased) => runq_[r].pc = "done"
            /\ (runq_[r].pc = "done" /\ runq_[r].inLoopAtStop
                  /\ runq_[r].options = "DoFinalize")
                 => (runq_[r].finalCalls = 1
                       /\ work[r].processed >= work[r].atStop)
            /\ (runq_[r].options = "None") => runq_[r].finalCalls = 0)
    /\ [][\A r \in Runnables :
            /\ Invokes(r) =>
                  IF runq_[r].pc = "test" THEN ~runq_[r].stop
                  ELSE /\ runq_[r].pc = "after"
                       /\ runq_[r].stop
                       /\ runq_[r].options = "DoFinalize"
                       /\ runq_[r].finalCalls = 0
            /\ runq_[r].finished_ =>
                  /\ work'[r].processed = work[r].processed
                  /\ ~Invokes(r)]_vars

\* A finished runnable with DoFinalize that had items waiting when stop was
\* requested, and a finished runnable without the flag that was stopped in
\* its loop with items waiting and has left them.
C34_Witness ==
    /\ \E r \in Runnables :
          /\ runq_[r].finished_
          /\ runq_[r].options = "DoFinalize"
          /\ runq_[r].inLoopAtStop
          /\ work[r].waitingAtStop > 0
          /\ work[r].processed = work[r].queued
    /\ \E r \in Runnables :
          /\ runq_[r].finished_
          /\ runq_[r].options = "None"
          /\ runq_[r].inLoopAtStop
          /\ work[r].waitingAtStop > 0
          /\ work[r].processed < work[r].atStop

(***************************************************************************)
(* The receiving session whose peers connect to some of its listeners or   *)
(* to all, and close every connection they made.                           *)
(***************************************************************************)
\* After RxSession::start: the listeners are bound and the Receivers run;
\* a peer has connected to a listener, or not yet, or never will.
ListenInit ==
    /\ IdleExcept("recv")
    /\ receivers = [r \in Receivers |-> NewReceiver]
    /\ conns \in [Receivers -> {NoConn, [NoConn EXCEPT !.state = "pending"]}]
    /\ rpools = [r \in Receivers |-> RxPoolCount]
    /\ wqueue = <<>>
    /\ stopReq = FALSE
    /\ sentCount = [frames |-> 0, conns |-> 0]

SpecListen == ListenInit /\ [][ReceiverNext]_vars

\* The threads of the receiving side are scheduled again and again, and a
\* peer that has nothing more in flight closes its connection; whether a
\* peer connects, what it sends, and whether the session is finished from
\* outside, is up to them.
ListenFairness ==
    /\ ReceiverFairness
    /\ \A r \in Receivers : WF_vars(PeerClose(r))

SpecListenFair == SpecListen /\ ListenFairness

\* Every Receiver thread has finished: ThreadExecutor::runOnce then erases
\* them all and RxSession::runOnce returns false.
ReceiversFinished == \A r \in Receivers : receivers[r].phase = "finished"

\* Receiver r is in waitConnect on a listener that no peer has connected to.
Polling(r) ==
    /\ receivers[r].phase = "loop"
    /\ ~receivers[r].fd_
    /\ conns[r].state = "none"

\* C38: with every connection closed in the end, every Receiver completes,
\* so that RxSession::runOnce returns false.
C38_ReceiversComplete == <>ReceiversFinished

\* The same, unless a Receiver is left in waitConnect for ever.
C38_UnlessPolling ==
    \/ <>ReceiversFinished
    \/ \E r \in Receivers : <>[]Polling(r)

(***************************************************************************)
(* getFileInfo on a directory, entry by entry: the body of the loop over   *)
(* recursive_directory_iterator, for trees of up to MaxWalk entries that   *)
(* are not directories.  The counter is an unsigned of 32 bits, which      *)
(* MaxWalk entries do not fill; the id is a uint16_t.                      *)
(***************************************************************************)
MaxWalk == 65537

WalkInit ==
    /\ IdleExcept("walk")
    /\ walkId = 0
    /\ walkFirst = 0
    /\ walkLast = <<>>

\* One turn of the loop, for an entry of the given mode.
WalkEntry(mode) ==
    /\ UnchangedExcept("walk")
    /\ walkId < MaxWalk
    /\ LET info == getFileInfoFrom(<<[mode |-> mode, size |-> 100]>>, walkId)[1]
       IN  /\ walkId' = IF mode = "dir" THEN walkId ELSE walkId + 1
           /\ walkLast' = <<info>>
           /\ walkFirst' = IF mode # "dir" /\ walkId = 0 THEN info.id
                           ELSE walkFirst

WalkNext == \E mode \in {"dir", "reg"} : WalkEntry(mode)

SpecWalk == WalkInit /\ [][WalkNext]_vars

\* C37: an entry that is not a directory gets an id that is not 0, and an
\* entry after the first such entry does not get the id of the first.
C37_IdsNonZeroDistinct ==
    /\ [](\A i \in DOMAIN walkLast :
            (walkLast[i].mode # "dir") => (walkLast[i].id # 0))
    /\ [][\A i \in DOMAIN walkLast' :
            (walkLast'[i].mode # "dir" /\ walkId # 0) =>
                (walkLast'[i].id # walkFirst)]_vars

\* The same for the trees with fewer entries than the id has values.
C37_UpToIdSpace ==
    /\ [](\A i \in DOMAIN walkLast :
            (walkLast[i].mode # "dir" /\ walkId < 65536) =>
                (walkLast[i].id = walkId))
    /\ [][\A i \in DOMAIN walkLast' :
            (walkLast'[i].mode # "dir" /\ walkId # 0 /\ walkId' < 65536) =>
                (walkLast'[i].id # walkFirst)]_vars

====
